---- MODULE Spec2Model ----
(***************************************************************************)
(* Model of the UAV mission planner's route optimizer                      *)
(* (backend/app/models/route_optimizer.py): RouteOptimizer.optimize_route  *)
(* and the per-pair search RouteOptimizer._find_optimal_path.              *)
(*                                                                         *)
(* Units.  Latitude and longitude are integers in micro-degrees (1e-6      *)
(* degree, the precision of Node.__hash__/__eq__), altitude is in whole    *)
(* metres, distances are in whole metres and costs (g, h, f, edge costs)   *)
(* are in tenths of a metre, so that the factors 0.1, 0.3 and 0.5 of the   *)
(* source stay integral.  A risk score is in tenths (0..10 for 0.0..1.0).  *)
(***************************************************************************)
EXTENDS Integers, Sequences, FiniteSets, TLC

\* ------------------------------------------------------------------------
\* Bounds of the model
\* ------------------------------------------------------------------------

\* Iteration cap of the per-pair search.  The source sets 1000
\* (route_optimizer.py:91); the model runs the same loop under a smaller cap,
\* which the searches for the farther goals below exhaust.
max_iterations == 30

\* ------------------------------------------------------------------------
\* Program constants
\* ------------------------------------------------------------------------

grid_resolution == 1000       \* 0.001 degree, in micro-degrees
altitude_resolution == 20     \* metres
risk_weight == 2              \* multiplies risk_score * distance
Inf == 1000000000             \* float('inf') of Node.g_cost / Node.f_cost
MinAltitude == 50             \* max(50, ...) in _get_neighbors
GoalToleranceM == 100         \* horizontal goal tolerance, metres
GoalToleranceAlt == 50        \* vertical goal tolerance, metres
DefaultRisk == 3              \* risk_score = 0.3 when the scorer raises
MaxLatitude == 90000000       \* geopy rejects |latitude| > 90 degrees

\* ------------------------------------------------------------------------
\* Arithmetic helpers
\* ------------------------------------------------------------------------

Abs(x) == IF x < 0 THEN 0 - x ELSE x
Max(a, b) == IF a >= b THEN a ELSE b
Min(a, b) == IF a <= b THEN a ELSE b

RECURSIVE SqrtIter(_, _)
SqrtIter(n, x) ==
  LET y == (x + (n \div x)) \div 2
  IN  IF y >= x THEN x ELSE SqrtIter(n, y)

\* floor of the square root
ISqrt(n) == IF n <= 0 THEN 0 ELSE SqrtIter(n, Min(n, 46341))

\* ------------------------------------------------------------------------
\* geopy.distance.geodesic(...).meters, approximated on integers:
\* an equirectangular projection with 111 m per 0.001 degree of latitude
\* and the longitude scaled by the cosine of the mean latitude (a table
\* per 10-degree band, in thousandths).
\* ------------------------------------------------------------------------

CosMilli(lat) ==
  LET band == Abs(lat) \div 10000000
  IN  CASE band = 0 -> 996
        [] band = 1 -> 966
        [] band = 2 -> 906
        [] band = 3 -> 819
        [] band = 4 -> 707
        [] band = 5 -> 574
        [] band = 6 -> 423
        [] band = 7 -> 259
        [] OTHER    -> 87

\* metres spanned by d micro-degrees of latitude
LatMeters(d) == ((d \div 1000) * 111) + (((d % 1000) * 111) \div 1000)

\* geopy's Point raises ValueError for a latitude outside [-90, 90]
ValidLat(lat) == Abs(lat) <= MaxLatitude

geodesic(lat1, lng1, lat2, lng2) ==
  LET ym  == LatMeters(Abs(lat1 - lat2))
      xm0 == LatMeters(Abs(lng1 - lng2))
      xm  == ((xm0 \div 1000) * CosMilli((lat1 + lat2) \div 2))
             + (((xm0 % 1000) * CosMilli((lat1 + lat2) \div 2)) \div 1000)
  IN  IF ym > 30000 \/ xm > 30000
        THEN Max(ym, xm)              \* far apart: only "far" matters
        ELSE ISqrt((ym * ym) + (xm * xm))

\* ------------------------------------------------------------------------
\* Node (route_optimizer.py:12-33)
\* ------------------------------------------------------------------------

\* Node(lat, lng, altitude): the dataclass defaults; parent 0 is None.
\* A parent is the index of another Node in the table of live Node objects.
Node(lat, lng, altitude) ==
  [lat |-> lat, lng |-> lng, altitude |-> altitude,
   g_cost |-> Inf, h_cost |-> 0, f_cost |-> Inf, parent |-> 0]

Waypoint(lat, lng, altitude) == [lat |-> lat, lng |-> lng, altitude |-> altitude]

\* Node.__eq__ (and the equality that set membership uses after __hash__):
\* the coordinates rounded to 1e-6 degree and 0.1 m agree.  Coordinates are
\* held in micro-degrees and whole metres, so they are their own roundings.
NodeEq(a, b) ==
  /\ a.lat = b.lat
  /\ a.lng = b.lng
  /\ a.altitude = b.altitude

\* Node.__lt__, on the Node objects ns[a] and ns[b]
NodeLt(ns, a, b) == ns[a].f_cost < ns[b].f_cost

\* ------------------------------------------------------------------------
\* heapq, on a list of Node objects (indices into the table ns); positions
\* are 0-based as in heapq, the sequence is 1-based.
\* ------------------------------------------------------------------------

RECURSIVE _siftdown(_, _, _, _, _)
_siftdown(ns, heap, startpos, pos, newitem) ==
  IF pos > startpos
    THEN LET parentpos == (pos - 1) \div 2
             parent == heap[parentpos + 1]
         IN  IF NodeLt(ns, newitem, parent)
               THEN _siftdown(ns, [heap EXCEPT ![pos + 1] = parent],
                              startpos, parentpos, newitem)
               ELSE [heap EXCEPT ![pos + 1] = newitem]
    ELSE [heap EXCEPT ![pos + 1] = newitem]

RECURSIVE _siftup(_, _, _, _)
_siftup(ns, heap, pos, newitem) ==
  LET endpos == Len(heap)
      childpos == (2 * pos) + 1
      rightpos == childpos + 1
  IN  IF childpos < endpos
        THEN LET c == IF rightpos < endpos
                         /\ ~NodeLt(ns, heap[childpos + 1], heap[rightpos + 1])
                        THEN rightpos ELSE childpos
             IN  _siftup(ns, [heap EXCEPT ![pos + 1] = heap[c + 1]], c, newitem)
        ELSE _siftdown(ns, [heap EXCEPT ![pos + 1] = newitem], 0, pos, newitem)

heappush(ns, heap, item) ==
  _siftdown(ns, Append(heap, item), 0, Len(heap), item)

\* heappop of a non-empty heap: the item returned and the heap left
heappop(ns, heap) ==
  LET lastelt == heap[Len(heap)]
      rest == SubSeq(heap, 1, Len(heap) - 1)
  IN  IF rest = << >>
        THEN [item |-> lastelt, heap |-> rest]
        ELSE [item |-> rest[1], heap |-> _siftup(ns, rest, 0, lastelt)]

\* ------------------------------------------------------------------------
\* RouteOptimizer helpers
\* ------------------------------------------------------------------------

_heuristic_cost(node, goal) ==
  LET horizontal_distance == geodesic(node.lat, node.lng, goal.lat, goal.lng)
      altitude_distance == Abs(goal.altitude - node.altitude)
  IN  (10 * horizontal_distance) + (5 * altitude_distance)

\* the goal test that also asks the node to be some way from the goal
_is_goal_reached_moved(node, goal) ==
  LET distance == geodesic(node.lat, node.lng, goal.lat, goal.lng)
      altitude_diff == Abs(node.altitude - goal.altitude)
  IN  0 < distance /\ distance < GoalToleranceM /\ altitude_diff < GoalToleranceAlt

\* _is_goal_reached with "or" in place of "and"
_is_goal_reached_either(node, goal) ==
  LET distance == geodesic(node.lat, node.lng, goal.lat, goal.lng)
      altitude_diff == Abs(node.altitude - goal.altitude)
  IN  distance < GoalToleranceM \/ altitude_diff < GoalToleranceAlt

_is_goal_reached(node, goal) ==
  LET distance == geodesic(node.lat, node.lng, goal.lat, goal.lng)
      altitude_diff == Abs(node.altitude - goal.altitude)
  IN  distance < GoalToleranceM /\ altitude_diff < GoalToleranceAlt

directions ==
  << <<-1, -1, 0>>, <<-1, 0, 0>>, <<-1, 1, 0>>,
     <<0, -1, 0>>,                <<0, 1, 0>>,
     <<1, -1, 0>>,  <<1, 0, 0>>,  <<1, 1, 0>>,
     <<0, 0, -1>>,  <<0, 0, 1>> >>

step_multiplier(distance_to_goal) ==
  IF distance_to_goal > 5000 THEN 5
  ELSE IF distance_to_goal > 1000 THEN 2
  ELSE 1

_get_neighbors(node, goal) ==
  LET distance_to_goal == geodesic(node.lat, node.lng, goal.lat, goal.lng)
      m == step_multiplier(distance_to_goal)
      lat_step == grid_resolution * m
      lng_step == grid_resolution * m
      alt_step == altitude_resolution * m
      moved == [k \in 1..Len(directions) |->
                  Node(node.lat + (directions[k][1] * lat_step),
                       node.lng + (directions[k][2] * lng_step),
                       Max(MinAltitude, node.altitude + (directions[k][3] * alt_step)))]
  IN  IF distance_to_goal < 2000
        THEN Append(moved, Node(goal.lat, goal.lng, goal.altitude))
        ELSE moved

_calculate_terrain_penalty(node) ==
  IF 37770000 < node.lat /\ node.lat < 37790000
     /\ -122420000 < node.lng /\ node.lng < -122400000
    THEN 1000
  ELSE IF 37750000 < node.lat /\ node.lat < 37780000
          /\ -122450000 < node.lng /\ node.lng < -122420000
    THEN 500
  ELSE 0

no_fly_zones ==
  << <<37621311, -122378968, 2000>>, <<37759859, -122447151, 1000>> >>

RECURSIVE NoFlyLoop(_, _, _)
NoFlyLoop(node, k, min_distance) ==
  IF k > Len(no_fly_zones)
    THEN IF min_distance # Inf THEN min_distance ELSE 0
    ELSE LET zone_radius == no_fly_zones[k][3]
             distance == geodesic(node.lat, node.lng,
                                  no_fly_zones[k][1], no_fly_zones[k][2])
         IN  IF distance < zone_radius
               THEN 100000
             ELSE IF distance < zone_radius * 2
               THEN NoFlyLoop(node, k + 1,
                      Min(min_distance,
                          (5000 * ((2 * zone_radius) - distance)) \div zone_radius))
             ELSE NoFlyLoop(node, k + 1, min_distance)

_calculate_no_fly_penalty(node) == NoFlyLoop(node, 1, Inf)

\* The risk_predictor handed to optimize_route is a capability of the
\* caller.  Its behaviours here: a score of 0.0 on every segment, a score of
\* 1.0 on every segment, a score that depends on the segment, and raising on
\* every call.
Scorers == {"safe", "risky", "byalt", "raises"}

\* whether risk_predictor.predict_mission_risk(segment_mission) raises
ScorerRaises(scorer, from_node, to_node) == scorer = "raises"

\* the score it returns when it does not raise, in tenths
predict_mission_risk(scorer, from_node, to_node) ==
  CASE scorer = "safe"  -> 0
    [] scorer = "risky" -> 10
    [] OTHER            -> IF to_node.altitude < 100 THEN 9 ELSE 1

\* the try/except around the scorer call
risk_score_of(scorer, from_node, to_node) ==
  IF ScorerRaises(scorer, from_node, to_node)
    THEN DefaultRisk
    ELSE predict_mission_risk(scorer, from_node, to_node)

\* defined when both latitudes are valid; geodesic raises otherwise
_calculate_edge_cost(scorer, from_node, to_node) ==
  LET distance == geodesic(from_node.lat, from_node.lng, to_node.lat, to_node.lng)
      altitude_change == Abs(to_node.altitude - from_node.altitude)
      altitude_cost == altitude_change
      risk_score == risk_score_of(scorer, from_node, to_node)
      risk_cost == risk_score * distance * risk_weight
      terrain_penalty == _calculate_terrain_penalty(to_node)
      no_fly_penalty == _calculate_no_fly_penalty(to_node)
  IN  (10 * distance) + altitude_cost + risk_cost + terrain_penalty + no_fly_penalty

\* the latitudes geodesic is given while costing an edge
EdgeCostRaises(from_node, to_node) ==
  ~ValidLat(from_node.lat) \/ ~ValidLat(to_node.lat)

RECURSIVE ReconstructLoop(_, _, _)
ReconstructLoop(ns, current, path) ==
  IF current = 0 THEN path
  ELSE ReconstructLoop(ns, ns[current].parent, <<current>> \o path)

\* the Node objects from the start to goal_node, by parent pointers
_reconstruct_path(ns, goal_node) == ReconstructLoop(ns, goal_node, << >>)

\* ------------------------------------------------------------------------
\* State
\* ------------------------------------------------------------------------

VARIABLES
  mission,              \* mission.waypoints, the input of optimize_route
  scorer,               \* behaviour of the risk_predictor argument
  pc,                   \* position in optimize_route / _find_optimal_path
  i,                    \* index of the waypoint pair (1-based)
  optimized_waypoints,  \* the list optimize_route builds
  result,               \* outcome of optimize_route
  segments,             \* what _find_optimal_path returned for each pair so far
  start,                \* start waypoint of the pair being searched
  goal,                 \* goal waypoint of the pair being searched
  nodes,                \* the Node objects held by open_set / closed_set
  open_set,             \* heapq list of Node objects (indices into nodes)
  closed_set,           \* set of Node objects (indices into nodes)
  iterations,           \* loop counter of the search
  current,              \* the Node popped last (0 before the first pop)
  optimal_segment       \* the list _find_optimal_path returned

\* MissionSimulator (simulator.py)
VARIABLES
  sim_mission,          \* the Mission handed to simulate_mission
  speed_multiplier,     \* its speed_multiplier argument, in tenths
  sim_pc,               \* position in simulate_mission / _simulate_segment
  sim_i,                \* index of the segment (1-based)
  simulation_steps,     \* the list simulate_mission builds
  current_state,        \* current_state of simulate_mission / _simulate_segment
  segment,              \* what _simulate_segment computes before its loop
  step,                 \* loop variable of _simulate_segment
  steps,                \* the list _simulate_segment builds
  sim_result            \* what simulate_mission returns

sim_vars == <<sim_mission, speed_multiplier, sim_pc, sim_i, simulation_steps,
              current_state, segment, step, steps, sim_result>>

\* RiskPredictor (risk_model.py)
VARIABLES
  risk_mission,         \* the Mission handed to the RiskPredictor
  model,                \* whether self.model / self.explainer are loaded
  shap_values,          \* what the explainer attributes to the 12 features
  risk_pc,              \* which method of the RiskPredictor has run
  features,             \* what _extract_features returned
  risk_result           \* what the method returned

risk_vars == <<risk_mission, model, shap_values, risk_pc, features, risk_result>>

\* MissionService, SimulationService and the database (services/, database.py)
VARIABLES
  clock,                \* datetime.now(), in ticks
  db_missions,          \* the rows of the missions table
  db_simulation_runs,   \* the rows of the simulation_runs table
  planning,             \* per caller: position in plan_mission and its locals
  service_result        \* the last SimulationService.simulate_mission call

svc_vars == <<clock, db_missions, db_simulation_runs, planning, service_result>>

route_vars == <<mission, scorer, pc, i, optimized_waypoints, result, segments,
                start, goal, nodes, open_set, closed_set, iterations, current,
                optimal_segment>>

vars == <<mission, scorer, pc, i, optimized_waypoints, result, segments,
          start, goal, nodes, open_set, closed_set, iterations, current,
          optimal_segment, sim_vars, risk_vars, svc_vars>>

search_vars == <<start, goal, nodes, open_set, closed_set, iterations, current>>

\* Missions handed to optimize_route
Missions ==
  { \* the three-waypoint scenario over San Francisco
    << Waypoint(37774900, -122419400, 100), Waypoint(37784900, -122409400, 120),
       Waypoint(37794900, -122399400, 100) >>,
    \* two identical waypoints
    << Waypoint(10000000, 10000000, 100), Waypoint(10000000, 10000000, 100) >>,
    \* two waypoints within the goal tolerance of each other
    << Waypoint(10000000, 10000000, 100), Waypoint(10000300, 10000500, 120) >>,
    \* a short hop, then a goal 15 km away
    << Waypoint(10000000, 10000000, 80), Waypoint(10003000, 10000000, 80),
       Waypoint(10100000, 10100000, 80) >>,
    \* a climb on the spot
    << Waypoint(10000000, 10000000, 60), Waypoint(10000000, 10000000, 160) >>,
    \* a goal next to the first neighbor of the start
    << Waypoint(10000000, 10000000, 100), Waypoint(9998900, 9998900, 100) >>,
    \* a goal a little more than 2 km away
    << Waypoint(10000000, 10000000, 100), Waypoint(10002700, 9981500, 100) >>,
    \* a route next to the pole
    << Waypoint(89996500, -122000000, 100), Waypoint(89995400, -122001100, 100),
       Waypoint(89900000, -122000000, 100) >>,
    \* two hops, each to a goal next to the first neighbor of its start
    << Waypoint(10000000, 10000000, 100), Waypoint(9998900, 9998900, 100),
       Waypoint(9997800, 9997800, 100) >>,
    \* a start and a goal below 50 m
    << Waypoint(10000000, 10000000, 30), Waypoint(10003000, 10000000, 20) >>,
    \* fewer than two waypoints
    << Waypoint(10000000, 10000000, 100) >> }

Returned(waypoints) == [status |-> "returned", waypoints |-> waypoints]

NoResult == [status |-> "none", waypoints |-> << >>]

\* Mission(waypoints, battery_capacity, max_speed, weather_conditions):
\* battery_capacity in percent, max_speed in m/s.  weather_conditions is
\* the dict as a function from its keys to whole m/s; None and the empty
\* dict are both the empty function, since every read of the field is
\* either a truth test or "weather_conditions or {}".
Mission(waypoints, battery_capacity, max_speed, weather_conditions) ==
  [waypoints |-> waypoints, battery_capacity |-> battery_capacity,
   max_speed |-> max_speed, weather_conditions |-> weather_conditions]

NoWeather == << >>

\* weather.get(key, default)
Get(weather, key, default) ==
  IF key \in DOMAIN weather THEN weather[key] ELSE default

\* the simulator before simulate_mission is called
SimIdle ==
  /\ sim_mission = Mission(<< >>, 0, 1, NoWeather)
  /\ speed_multiplier = 10
  /\ sim_pc = "idle"
  /\ sim_i = 0
  /\ simulation_steps = << >>
  /\ current_state = << >>
  /\ segment = << >>
  /\ step = 0
  /\ steps = << >>
  /\ sim_result = [kind |-> "none"]

\* the risk predictor before any of its methods is called
RiskIdle ==
  /\ risk_mission = Mission(<< >>, 0, 1, NoWeather)
  /\ model = FALSE
  /\ shap_values = << >>
  /\ risk_pc = "idle"
  /\ features = << >>
  /\ risk_result = [kind |-> "none"]

\* the two callers of plan_mission
Callers == {"first", "second"}

\* no caller has called plan_mission, the tables are empty
SvcIdle ==
  /\ clock = 0
  /\ db_missions = << >>
  /\ db_simulation_runs = << >>
  /\ planning = [c \in Callers |-> [pc |-> "idle"]]
  /\ service_result = [kind |-> "none"]

Init ==
  /\ mission \in Missions
  /\ scorer \in Scorers
  /\ pc = "call"
  /\ i = 0
  /\ optimized_waypoints = << >>
  /\ result = NoResult
  /\ segments = << >>
  /\ start = Waypoint(0, 0, 0)
  /\ goal = Waypoint(0, 0, 0)
  /\ nodes = << >>
  /\ open_set = << >>
  /\ closed_set = {}
  /\ iterations = 0
  /\ current = 0
  /\ optimal_segment = << >>
  /\ SimIdle
  /\ RiskIdle
  /\ SvcIdle

\* ------------------------------------------------------------------------
\* _find_optimal_path: the loop over the neighbors of the popped node
\* (route_optimizer.py:110-128).  st = [nodes, open, raised] is the state of
\* the Node objects and of open_set while the loop runs; raised is set when
\* costing an edge raises, which ends the search.
\* ------------------------------------------------------------------------

InClosed(ns, closed, neighbor) == \E c \in closed : NodeEq(ns[c], neighbor)

\* a membership test on open_set that never finds the neighbor
InOpen_never(ns, open, neighbor) == FALSE

\* neighbor in [node for node in open_set]
InOpen(ns, open, neighbor) == \E j \in 1..Len(open) : NodeEq(ns[open[j]], neighbor)

\* a push that leaves parent, g_cost and f_cost of the pushed Node as the
\* constructor set them
PushNeighbor_unlinked(st, neighbor, goal_node, cur, tentative_g_cost) ==
  LET h == _heuristic_cost(neighbor, goal_node)
      ns1 == Append(st.nodes, [neighbor EXCEPT !.h_cost = h])
  IN  [st EXCEPT !.nodes = ns1, !.open = heappush(ns1, st.open, Len(ns1))]

\* The neighbor is not in open_set: h_cost is set, the Node is pushed with
\* the f_cost it has at that moment (inf), and only then parent, g_cost and
\* f_cost are assigned on the pushed object.
PushNeighbor(st, neighbor, goal_node, cur, tentative_g_cost) ==
  LET h == _heuristic_cost(neighbor, goal_node)
      ns1 == Append(st.nodes, [neighbor EXCEPT !.h_cost = h])
      id == Len(ns1)
      open1 == heappush(ns1, st.open, id)
      ns2 == [ns1 EXCEPT ![id].parent = cur,
                         ![id].g_cost = tentative_g_cost,
                         ![id].f_cost = tentative_g_cost + h]
  IN  [st EXCEPT !.nodes = ns2, !.open = open1]

\* The neighbor's identity is already in open_set.  The variable neighbor
\* is the Node that _get_neighbors has just constructed (g_cost = inf), not
\* the equal Node held by open_set: the comparison is against inf, and the
\* assignments of parent, g_cost and f_cost are made on that new object,
\* which no collection holds.  The Node in open_set is left as it is.
RevisitNeighbor(st, neighbor, cur, tentative_g_cost) ==
  IF tentative_g_cost >= neighbor.g_cost
    THEN st
    ELSE LET updated == [neighbor EXCEPT !.parent = cur,
                                         !.g_cost = tentative_g_cost,
                                         !.f_cost = tentative_g_cost + neighbor.h_cost]
         IN  st

RECURSIVE ExploreNeighbors(_, _, _, _, _, _, _)
ExploreNeighbors(sc, goal_node, cur, closed, neighbors, k, st) ==
  IF k > Len(neighbors) \/ st.raised
    THEN st
    ELSE LET neighbor == neighbors[k]
             ns == st.nodes
         IN  IF InClosed(ns, closed, neighbor)
               THEN ExploreNeighbors(sc, goal_node, cur, closed, neighbors, k + 1, st)
             ELSE IF EdgeCostRaises(ns[cur], neighbor)
               THEN [st EXCEPT !.raised = TRUE]
             ELSE LET tentative_g_cost ==
                        ns[cur].g_cost + _calculate_edge_cost(sc, ns[cur], neighbor)
                      st1 == IF ~InOpen(ns, st.open, neighbor)
                               THEN PushNeighbor(st, neighbor, goal_node, cur,
                                                 tentative_g_cost)
                               ELSE RevisitNeighbor(st, neighbor, cur, tentative_g_cost)
                  IN  ExploreNeighbors(sc, goal_node, cur, closed, neighbors, k + 1, st1)

\* the loop condition without the iteration cap
LoopContinues_uncapped(open, it) == open # << >>

\* while open_set and iterations < max_iterations
LoopContinues(open, it) == open # << >> /\ it < max_iterations

\* the direct path with its two points swapped
DirectPath_swapped(s, g) == <<g, s>>

\* "If no path found, return direct path"
DirectPath(s, g) == <<s, g>>

\* [Waypoint(node.lat, node.lng, node.altitude) for node in path]
PathWaypoints(ns, path) ==
  [k \in 1..Len(path) |->
     Waypoint(ns[path[k]].lat, ns[path[k]].lng, ns[path[k]].altitude)]

\* optimize_route without its except clause: the exception reaches the caller
optimize_route_reraise(waypoints) == [status |-> "raised", waypoints |-> << >>]

\* except Exception: return mission.waypoints
optimize_route_except(waypoints) == Returned(waypoints)

\* ------------------------------------------------------------------------
\* Actions
\* ------------------------------------------------------------------------

\* optimize_route with fewer than 2 waypoints
OptimizeRouteShort ==
  /\ pc = "call"
  /\ Len(mission) < 2
  /\ result' = Returned(mission)
  /\ pc' = "done"
  /\ UNCHANGED <<mission, scorer, i, optimized_waypoints, segments,
                 search_vars, optimal_segment>>
  /\ UNCHANGED <<sim_vars, risk_vars, svc_vars>>

\* optimize_route up to the loop over the pairs
OptimizeRouteBegin ==
  /\ pc = "call"
  /\ Len(mission) >= 2
  /\ optimized_waypoints' = <<mission[1]>>
  /\ i' = 1
  /\ pc' = "pair"
  /\ UNCHANGED <<mission, scorer, result, segments, search_vars, optimal_segment>>
  /\ UNCHANGED <<sim_vars, risk_vars, svc_vars>>

\* the call of _find_optimal_path for pair i, up to its loop
FindOptimalPathBegin ==
  /\ pc = "pair"
  /\ i <= Len(mission) - 1
  /\ start' = mission[i]
  /\ goal' = mission[i + 1]
  /\ LET goal_node == Node(mission[i + 1].lat, mission[i + 1].lng,
                           mission[i + 1].altitude)
         h == _heuristic_cost(Node(mission[i].lat, mission[i].lng,
                                   mission[i].altitude), goal_node)
     IN  nodes' = << [Node(mission[i].lat, mission[i].lng, mission[i].altitude)
                        EXCEPT !.g_cost = 0, !.h_cost = h, !.f_cost = h] >>
  /\ open_set' = <<1>>
  /\ closed_set' = {}
  /\ iterations' = 0
  /\ current' = 0
  /\ pc' = "loop"
  /\ UNCHANGED <<mission, scorer, i, optimized_waypoints, result, segments,
                 optimal_segment>>
  /\ UNCHANGED <<sim_vars, risk_vars, svc_vars>>

\* one iteration: the popped node is within the goal tolerance
SearchGoalReached ==
  /\ pc = "loop"
  /\ LoopContinues(open_set, iterations)
  /\ LET popped == heappop(nodes, open_set)
         goal_node == Node(goal.lat, goal.lng, goal.altitude)
     IN  /\ _is_goal_reached(nodes[popped.item], goal_node)
         /\ current' = popped.item
         /\ open_set' = popped.heap
         /\ optimal_segment' =
              PathWaypoints(nodes, _reconstruct_path(nodes, popped.item))
  /\ iterations' = iterations + 1
  /\ pc' = "found"
  /\ UNCHANGED <<mission, scorer, i, optimized_waypoints, result, segments,
                 start, goal, nodes, closed_set>>
  /\ UNCHANGED <<sim_vars, risk_vars, svc_vars>>

\* one iteration: the popped node is closed and its neighbors explored
SearchExpand ==
  /\ pc = "loop"
  /\ LoopContinues(open_set, iterations)
  /\ LET popped == heappop(nodes, open_set)
         goal_node == Node(goal.lat, goal.lng, goal.altitude)
         closed == closed_set \cup {popped.item}
         st == ExploreNeighbors(scorer, goal_node, popped.item, closed,
                                _get_neighbors(nodes[popped.item], goal_node), 1,
                                [nodes |-> nodes, open |-> popped.heap,
                                 raised |-> FALSE])
     IN  /\ ~_is_goal_reached(nodes[popped.item], goal_node)
         /\ current' = popped.item
         /\ closed_set' = closed
         /\ nodes' = st.nodes
         /\ open_set' = st.open
         /\ pc' = IF st.raised THEN "raised" ELSE "loop"
  /\ iterations' = iterations + 1
  /\ UNCHANGED <<mission, scorer, i, optimized_waypoints, result, segments,
                 start, goal, optimal_segment>>
  /\ UNCHANGED <<sim_vars, risk_vars, svc_vars>>

\* the loop ends without a goal: the direct path
SearchExhausted ==
  /\ pc = "loop"
  /\ ~LoopContinues(open_set, iterations)
  /\ optimal_segment' = DirectPath(start, goal)
  /\ pc' = "fallback"
  /\ UNCHANGED <<mission, scorer, i, optimized_waypoints, result, segments,
                 search_vars>>
  /\ UNCHANGED <<sim_vars, risk_vars, svc_vars>>

\* the extension made on the waypoint list of the input mission as well
ExtendRoute_aliased ==
  /\ pc \in {"found", "fallback"}
  /\ optimized_waypoints' =
       optimized_waypoints \o SubSeq(optimal_segment, 2, Len(optimal_segment))
  /\ mission' = mission \o SubSeq(optimal_segment, 2, Len(optimal_segment))
  /\ segments' = Append(segments, [status |-> pc, path |-> optimal_segment])
  /\ i' = i + 1
  /\ pc' = "pair"
  /\ UNCHANGED <<scorer, result, search_vars, optimal_segment>>
  /\ UNCHANGED <<sim_vars, risk_vars, svc_vars>>

\* optimized_waypoints.extend(optimal_segment[1:]) and the next pair
ExtendRoute ==
  /\ pc \in {"found", "fallback"}
  /\ optimized_waypoints' =
       optimized_waypoints \o SubSeq(optimal_segment, 2, Len(optimal_segment))
  /\ segments' = Append(segments, [status |-> pc, path |-> optimal_segment])
  /\ i' = i + 1
  /\ pc' = "pair"
  /\ UNCHANGED <<mission, scorer, result, search_vars, optimal_segment>>
  /\ UNCHANGED <<sim_vars, risk_vars, svc_vars>>

\* the loop over the pairs is over: return optimized_waypoints
RouteReturn ==
  /\ pc = "pair"
  /\ i > Len(mission) - 1
  /\ result' = Returned(optimized_waypoints)
  /\ pc' = "done"
  /\ UNCHANGED <<mission, scorer, i, optimized_waypoints, segments,
                 search_vars, optimal_segment>>
  /\ UNCHANGED <<sim_vars, risk_vars, svc_vars>>

\* an exception left _find_optimal_path: the except clause of optimize_route
RouteExcept ==
  /\ pc = "raised"
  /\ result' = optimize_route_except(mission)
  /\ pc' = "done"
  /\ UNCHANGED <<mission, scorer, i, optimized_waypoints, segments,
                 search_vars, optimal_segment>>
  /\ UNCHANGED <<sim_vars, risk_vars, svc_vars>>

Next ==
  \/ OptimizeRouteShort
  \/ OptimizeRouteBegin
  \/ FindOptimalPathBegin
  \/ SearchGoalReached
  \/ SearchExpand
  \/ SearchExhausted
  \/ ExtendRoute
  \/ RouteReturn
  \/ RouteExcept

Spec == Init /\ [][Next]_vars

\* ------------------------------------------------------------------------
\* Properties
\* ------------------------------------------------------------------------

IsWaypoint(w) == DOMAIN w = {"lat", "lng", "altitude"}

\* a search of this call of optimize_route raised, so that not every pair
\* has a returned segment
SearchRaised == pc \in {"raised", "done"} /\ Len(segments) < Len(mission) - 1

\* C1: optimize_route never raises for a mission with at least 2 waypoints,
\* whatever the scorer does and whether or not a search reaches its goal:
\* its outcome is never a raised exception, and when it is over it has
\* returned a list of waypoints.
C1_NeverRaises ==
  Len(mission) >= 2 =>
    /\ result.status # "raised"
    /\ pc = "done" =>
         /\ result.status = "returned"
         /\ \A k \in 1..Len(result.waypoints) : IsWaypoint(result.waypoints[k])

\* optimize_route has returned although the scorer raised on every call and
\* one of the searches raised
C1_Witness ==
  /\ pc = "done"
  /\ Len(mission) >= 2
  /\ scorer = "raises"
  /\ SearchRaised
  /\ result.status = "returned"

\* C2: for a mission with at least 2 waypoints the returned sequence has at
\* least 2 waypoints.
C2_AtLeastTwoWaypoints ==
  (pc = "done" /\ Len(mission) >= 2) => Len(result.waypoints) >= 2

\* C3: every path _find_optimal_path returns, found or direct, ends with a
\* point less than 100 m horizontally and less than 50 m vertically from
\* the goal.
C3_PathEndsAtGoal ==
  pc \in {"found", "fallback"} =>
    LET last == optimal_segment[Len(optimal_segment)]
    IN  /\ geodesic(last.lat, last.lng, goal.lat, goal.lng) < 100
        /\ Abs(last.altitude - goal.altitude) < 50

\* a found path of more than one point that ends on a point other than the
\* goal waypoint
C3_Witness ==
  /\ pc = "found"
  /\ Len(optimal_segment) >= 2
  /\ optimal_segment[Len(optimal_segment)] # goal

\* C4: when the loop of the search ends because the iteration cap is reached
\* or open_set is empty, the search returns exactly [start, goal] and does
\* not raise.
C4_DirectFallback ==
  [][(pc = "loop" /\ ~(open_set # << >> /\ iterations < max_iterations))
       => (pc' = "fallback" /\ optimal_segment' = <<start, goal>>)]_vars

\* the cap was reached with open_set not empty, no popped node was within the
\* goal tolerance, and the direct path was returned
C4_Witness ==
  /\ pc = "fallback"
  /\ open_set # << >>
  /\ start # goal
  /\ \A c \in closed_set :
       geodesic(nodes[c].lat, nodes[c].lng, goal.lat, goal.lng) >= 100
  /\ optimal_segment = <<start, goal>>

RECURSIVE ConcatTails(_, _)
ConcatTails(segs, k) ==
  IF k > Len(segs) THEN << >>
  ELSE SubSeq(segs[k].path, 2, Len(segs[k].path)) \o ConcatTails(segs, k + 1)

IsPrefix(p, q) == Len(p) <= Len(q) /\ SubSeq(q, 1, Len(p)) = p

\* C5: a failure of the search for one pair (cap reached, or an error raised
\* while searching that pair) replaces only that pair's portion of the
\* result; the portions computed for the other pairs remain their own search
\* results, so the result begins with the first waypoint followed by the
\* segments returned for the pairs searched.
C5_OnlyThatPairDegrades ==
  (pc = "done" /\ Len(mission) >= 2) =>
    IsPrefix(<<mission[1]>> \o ConcatTails(segments, 1), result.waypoints)

\* ---- the graph the search generated ----

\* index of the Node object with the identity of n, 0 if there is none
NodeIndex(ns, n) ==
  IF \E j \in 1..Len(ns) : NodeEq(ns[j], n)
    THEN CHOOSE j \in 1..Len(ns) : NodeEq(ns[j], n)
    ELSE 0

\* the edges <<from, to, cost>> from each expanded node to the neighbors
\* generated for it
GeneratedEdges ==
  LET goal_node == Node(goal.lat, goal.lng, goal.altitude)
  IN  UNION { LET nbrs == _get_neighbors(nodes[c], goal_node)
              IN  { <<c, NodeIndex(nodes, nbrs[k]),
                      _calculate_edge_cost(scorer, nodes[c], nbrs[k])>> :
                    k \in { kk \in 1..Len(nbrs) : NodeIndex(nodes, nbrs[kk]) # 0 } }
              : c \in closed_set }

SetMin(S) == CHOOSE x \in S : \A y \in S : x <= y

\* One round of relaxation towards each node: the costs D from the start,
\* improved by one more edge of E.  acc collects the new costs of 1..j-1.
RECURSIVE RoundFromStart(_, _, _, _)
RoundFromStart(D, E, j, acc) ==
  IF j > Len(D) THEN acc
  ELSE RoundFromStart(D, E, j + 1,
         Append(acc,
           SetMin({D[j]} \cup
                  { D[e[1]] + e[3] : e \in { x \in E : x[2] = j /\ D[x[1]] < Inf } })))

\* at most k rounds, until nothing improves
RECURSIVE RelaxFromStart(_, _, _)
RelaxFromStart(D, E, k) ==
  LET D2 == RoundFromStart(D, E, 1, << >>)
  IN  IF k = 0 \/ D2 = D THEN D ELSE RelaxFromStart(D2, E, k - 1)

RECURSIVE InitialCosts(_, _, _)
InitialCosts(zero, j, n) ==
  IF j > n THEN << >>
  ELSE <<IF j \in zero THEN 0 ELSE Inf>> \o InitialCosts(zero, j + 1, n)

\* cheapest cost from the start to each node over the generated edges
CheapestFromStart ==
  RelaxFromStart(InitialCosts({1}, 1, Len(nodes)), GeneratedEdges,
                 Cardinality(closed_set))

\* One round of relaxation from each node: the remaining costs R to a
\* goal-tolerant node, improved by one more edge of E.
RECURSIVE RoundToGoal(_, _, _, _)
RoundToGoal(R, E, j, acc) ==
  IF j > Len(R) THEN acc
  ELSE RoundToGoal(R, E, j + 1,
         Append(acc,
           SetMin({R[j]} \cup
                  { e[3] + R[e[2]] : e \in { x \in E : x[1] = j /\ R[x[2]] < Inf } })))

RECURSIVE RelaxToGoal(_, _, _)
RelaxToGoal(R, E, k) ==
  LET R2 == RoundToGoal(R, E, 1, << >>)
  IN  IF k = 0 \/ R2 = R THEN R ELSE RelaxToGoal(R2, E, k - 1)

GoalTolerant(n) == _is_goal_reached(n, Node(goal.lat, goal.lng, goal.altitude))

\* cheapest cost from each node to a goal-tolerant node over the generated edges
CheapestToGoal ==
  RelaxToGoal(InitialCosts({ j \in 1..Len(nodes) : GoalTolerant(nodes[j]) },
                           1, Len(nodes)),
              GeneratedEdges, Cardinality(closed_set))

RECURSIVE PathCost(_, _)
PathCost(path, k) ==
  IF k >= Len(path) THEN 0
  ELSE _calculate_edge_cost(scorer, nodes[path[k]], nodes[path[k + 1]])
       + PathCost(path, k + 1)

\* C6: the sum of the edge costs of a found path is minimal among all paths
\* from the start to a goal-tolerant node over the generated neighbor graph
\* and the same edge-cost function.
C6_FoundPathIsCheapest ==
  pc = "found" =>
    LET D == CheapestFromStart
    IN  \A j \in 1..Len(nodes) :
          GoalTolerant(nodes[j]) =>
            PathCost(_reconstruct_path(nodes, current), 1) <= D[j]

\* C7: the node popped from OPEN has the lowest f-cost of all nodes in OPEN,
\* and among nodes of equal f-cost the one inserted earliest is popped first
\* (Node objects are numbered in the order of their insertion).
C7_PopsLowestF ==
  [][(pc = "loop" /\ iterations' = iterations + 1) =>
       \A j \in 1..Len(open_set) :
          \/ nodes[current'].f_cost < nodes[open_set[j]].f_cost
          \/ /\ nodes[current'].f_cost = nodes[open_set[j]].f_cost
             /\ current' <= open_set[j]]_vars

\* C8: OPEN always holds, for each identity, the best g-cost found so far:
\* no expanded node offers a node of OPEN a g-cost through it that is better
\* than the g-cost recorded in OPEN.
C8_OpenHoldsBestG ==
  pc = "loop" =>
    \A e \in GeneratedEdges :
       (\E j \in 1..Len(open_set) : open_set[j] = e[2]) =>
          nodes[e[2]].g_cost <= nodes[e[1]].g_cost + e[3]

\* C9: the search pops at most max_iterations nodes before it returns: the
\* loop counter never exceeds the cap, and every popped node was counted.
C9_PopsBounded ==
  /\ iterations <= max_iterations
  /\ Cardinality(closed_set) <= iterations
  /\ (pc = "loop" /\ iterations = max_iterations) => ENABLED SearchExhausted

\* a search that used the whole cap and returned
C9_Witness ==
  /\ pc = "done"
  /\ iterations = max_iterations
  /\ Cardinality(closed_set) = max_iterations

\* C10: h(node) never overestimates the remaining cost: for every node it is
\* at most the cheapest sum of edge costs of a path from that node to a
\* goal-tolerant node (here over the edges the search generated, whose
\* cheapest path costs at least the cheapest over all paths).
C10_HeuristicAdmissible ==
  pc = "found" =>
    LET R == CheapestToGoal
        goal_node == Node(goal.lat, goal.lng, goal.altitude)
    IN  \A j \in 1..Len(nodes) :
          R[j] < Inf => _heuristic_cost(nodes[j], goal_node) <= R[j]


\* C11: when the result of a pair after the first is concatenated, its first
\* point, which optimized_waypoints.extend(optimal_segment[1:]) drops, has
\* the coordinates of the last point already in optimized_waypoints.
C11_DroppedPointIsDuplicate ==
  (pc \in {"found", "fallback"} /\ i >= 2) =>
     optimal_segment[1] = optimized_waypoints[Len(optimized_waypoints)]

\* C12: for a pair whose start equals its goal the search returns the path
\* of that single point (or of two identical points), and no node has been
\* closed and no neighbor created when it returns.
C12_StartEqualsGoal ==
  (pc \in {"found", "fallback"} /\ start = goal) =>
     /\ optimal_segment \in {<<start>>, <<start, start>>}
     /\ closed_set = {}
     /\ Len(nodes) = 1

C12_Witness ==
  /\ pc = "found"
  /\ start = goal
  /\ iterations = 1
  /\ optimal_segment = <<start>>

\* ========================================================================
\* MissionSimulator (simulator.py)
\*
\* Units: timestamps and time_step in tenths of a second, battery in
\* millionths of a percent, speeds in hundredths of a metre per second,
\* risk_level in tenths, speed_multiplier in tenths.
\* ========================================================================

time_step == 5
battery_consumption_rate == 2
wind_effect_factor == 3
MinSteps == 10
SafetyMargin == 10

\* battery units per percent
BatteryUnit == 1000000

\* the two zone centres of _calculate_current_risk
sim_no_fly_zones == << <<37621311, -122378968>>, <<37759859, -122447151>> >>

\* min over the zones of geodesic(position, zone)
MinZoneDistance(zones, lat, lng) ==
  LET d(k) == geodesic(lat, lng, zones[k][1], zones[k][2])
  IN  CHOOSE m \in {d(k) : k \in 1..Len(zones)} :
        \A k \in 1..Len(zones) : m <= d(k)

\* _calculate_current_risk, in tenths
_calculate_current_risk(position, m) ==
  LET altitude_risk == (IF position.altitude > 200 THEN 1 ELSE 0)
                       + (IF position.altitude < 80 THEN 2 ELSE 0)
      wind_speed == Get(m.weather_conditions, "wind_speed", 0)
      weather_risk == IF m.weather_conditions = NoWeather THEN 0
                      ELSE IF wind_speed > 12 THEN 3
                      ELSE IF wind_speed > 8 THEN 1
                      ELSE 0
      min_distance == MinZoneDistance(sim_no_fly_zones, position.lat, position.lng)
      zone_risk == IF min_distance < 500 THEN 5
                   ELSE IF min_distance < 1000 THEN 2
                   ELSE 0
  IN  Min(10, altitude_risk + weather_risk + zone_risk)

\* SimulationState; the velocity vector is carried along and read by nothing
SimulationState(timestamp, position, battery, risk_level, speed) ==
  [timestamp |-> timestamp, position |-> position, battery |-> battery,
   risk_level |-> risk_level, speed |-> speed, altitude |-> position.altitude]

\* _initialize_simulation with the clock already one step on
_initialize_simulation_late(m) ==
  SimulationState(time_step, m.waypoints[1], m.battery_capacity * BatteryUnit, 0, 0)

_initialize_simulation(m) ==
  SimulationState(0, m.waypoints[1], m.battery_capacity * BatteryUnit, 0, 0)

\* the step count without the speed multiplier
total_steps_unscaled(segment_distance, max_speed, multiplier) ==
  Max(MinSteps, (segment_distance * 10) \div (max_speed * time_step))

\* max(10, int(segment_distance / (max_speed * time_step * speed_multiplier)))
total_steps(segment_distance, max_speed, multiplier) ==
  Max(MinSteps, (segment_distance * 100) \div (max_speed * time_step * multiplier))

\* what raises before the loop of _simulate_segment: geodesic on a latitude
\* out of range, and the division by max_speed * time_step * speed_multiplier
SegmentRaises(m, multiplier, start_wp, end_wp) ==
  \/ ~ValidLat(start_wp.lat)
  \/ ~ValidLat(end_wp.lat)
  \/ m.max_speed * time_step * multiplier = 0

\* segment_distance, altitude_change and total_steps of _simulate_segment
SegmentParameters(m, multiplier, start_wp, end_wp) ==
  LET segment_distance == geodesic(start_wp.lat, start_wp.lng,
                                   end_wp.lat, end_wp.lng)
  IN  [start_wp |-> start_wp, end_wp |-> end_wp,
       segment_distance |-> segment_distance,
       altitude_change |-> end_wp.altitude - start_wp.altitude,
       total_steps |-> total_steps(segment_distance, m.max_speed, multiplier)]

\* battery consumption of one step, in battery units:
\* (distance_step / 1000) * battery_consumption_rate * altitude_factor
\* * wind_factor, with distance_step in millimetres
battery_consumption(seg, wind_speed) ==
  LET distance_step == (seg.segment_distance * 1000) \div seg.total_steps
      altitude_factor == 1000 + Abs(seg.altitude_change)
      wind_factor == 10 + wind_speed
  IN  (distance_step * battery_consumption_rate * altitude_factor * wind_factor)
        \div 10000

\* battery=max(0, current_state.battery - battery_consumption) without the max
NextBattery_unfloored(battery, consumption) == battery - consumption

\* battery=max(0, current_state.battery - battery_consumption)
NextBattery(battery, consumption) == Max(0, battery - consumption)

\* the SimulationState one iteration of the loop of _simulate_segment builds
StepState(m, multiplier, seg, k, state) ==
  LET n == seg.total_steps
      current_lat == seg.start_wp.lat
                     + (((seg.end_wp.lat - seg.start_wp.lat) * k) \div (n - 1))
      current_lng == seg.start_wp.lng
                     + (((seg.end_wp.lng - seg.start_wp.lng) * k) \div (n - 1))
      current_alt == seg.start_wp.altitude + ((seg.altitude_change * k) \div (n - 1))
      target_speed == m.max_speed * multiplier * 10
      wind_speed == Get(m.weather_conditions, "wind_speed", 0)
      effective_speed == Max(0, target_speed - (wind_speed * wind_effect_factor * 10))
      position == Waypoint(current_lat, current_lng, current_alt)
  IN  SimulationState(state.timestamp + time_step, position,
                      NextBattery(state.battery, battery_consumption(seg, wind_speed)),
                      _calculate_current_risk(position, m), effective_speed)

\* if current_state.battery <= 0: break -- never taken
BatteryDepleted_never(state) == FALSE

\* if current_state.battery <= 0: break
BatteryDepleted(state) == state.battery <= 0

\* mission_success with >= in place of >
mission_success_inclusive(final_battery) == final_battery >= SafetyMargin * BatteryUnit

\* mission_success = final_battery > 10.0
mission_success(final_battery) == final_battery > SafetyMargin * BatteryUnit

\* _state_to_dict
_state_to_dict(state) ==
  [timestamp |-> state.timestamp, position |-> state.position,
   battery |-> state.battery, risk_level |-> state.risk_level,
   speed |-> state.speed]

\* the sum over i in range(lo, hi + 1) of the distance between states i-1
\* and i (1-based), split in halves to keep the evaluation shallow
RECURSIVE DistanceFlownLoop(_, _, _)
DistanceFlownLoop(states, lo, hi) ==
  IF lo > hi THEN 0
  ELSE IF lo = hi
    THEN geodesic(states[lo - 1].position.lat, states[lo - 1].position.lng,
                  states[lo].position.lat, states[lo].position.lng)
  ELSE LET mid == (lo + hi) \div 2
       IN  DistanceFlownLoop(states, lo, mid) + DistanceFlownLoop(states, mid + 1, hi)

_calculate_total_distance_flown(states) ==
  IF Len(states) < 2 THEN 0 ELSE DistanceFlownLoop(states, 2, Len(states))

SimError == [kind |-> "error"]

NoSimResult == [kind |-> "none"]

\* Missions handed to simulate_mission
SimMissions ==
  { \* the three-waypoint scenario over San Francisco
    Mission(<< Waypoint(37774900, -122419400, 100),
               Waypoint(37784900, -122409400, 120),
               Waypoint(37794900, -122399400, 100) >>,
            90, 15, [wind_speed |-> 3, gust_speed |-> 5]),
    \* two identical waypoints and a battery at the safety margin
    Mission(<< Waypoint(10000000, 10000000, 100),
               Waypoint(10000000, 10000000, 100) >>, 10, 15, NoWeather),
    \* climbs and descents in a strong wind on a nearly empty battery
    Mission(<< Waypoint(10000000, 10000000, 100), Waypoint(10002000, 10000000, 300),
               Waypoint(10004000, 10000000, 100), Waypoint(10006000, 10000000, 300) >>,
            2, 15, [wind_speed |-> 22, gust_speed |-> 30]),
    \* an empty battery
    Mission(<< Waypoint(10000000, 10000000, 100), Waypoint(10001500, 10000000, 100) >>,
            0, 10, NoWeather),
    \* a battery that ends just under the safety margin
    Mission(<< Waypoint(10000000, 10000000, 100), Waypoint(10003000, 10000000, 100) >>,
            11, 15, [wind_speed |-> 10, gust_speed |-> 12]),
    \* a battery that ends just over the safety margin, low over the ground
    Mission(<< Waypoint(10000000, 10000000, 60), Waypoint(10003000, 10000000, 70) >>,
            11, 8, [gust_speed |-> 9]),
    \* fewer than two waypoints
    Mission(<< Waypoint(10000000, 10000000, 100) >>, 100, 15, NoWeather) }

\* speed_multiplier arguments, in tenths
Multipliers == {0, 5, 10, 20}

\* the route optimizer before optimize_route is called
RouteIdle ==
  /\ mission = << >>
  /\ scorer = "safe"
  /\ pc = "idle"
  /\ i = 0
  /\ optimized_waypoints = << >>
  /\ result = NoResult
  /\ segments = << >>
  /\ start = Waypoint(0, 0, 0)
  /\ goal = Waypoint(0, 0, 0)
  /\ nodes = << >>
  /\ open_set = << >>
  /\ closed_set = {}
  /\ iterations = 0
  /\ current = 0
  /\ optimal_segment = << >>

InitSim ==
  /\ sim_mission \in SimMissions
  /\ speed_multiplier \in Multipliers
  /\ sim_pc = "call"
  /\ sim_i = 0
  /\ simulation_steps = << >>
  /\ current_state = << >>
  /\ segment = << >>
  /\ step = 0
  /\ steps = << >>
  /\ sim_result = NoSimResult
  /\ RouteIdle
  /\ RiskIdle
  /\ SvcIdle

\* simulate_mission with fewer than 2 waypoints
SimulateMissionShort ==
  /\ sim_pc = "call"
  /\ Len(sim_mission.waypoints) < 2
  /\ sim_result' = SimError
  /\ sim_pc' = "done"
  /\ UNCHANGED <<sim_mission, speed_multiplier, sim_i, simulation_steps,
                 current_state, segment, step, steps>>
  /\ UNCHANGED <<route_vars, risk_vars, svc_vars>>

\* simulate_mission up to the loop over the segments
SimulateMissionBegin ==
  /\ sim_pc = "call"
  /\ Len(sim_mission.waypoints) >= 2
  /\ simulation_steps' = << >>
  /\ current_state' = _initialize_simulation(sim_mission)
  /\ sim_i' = 1
  /\ sim_pc' = "segment"
  /\ UNCHANGED <<sim_mission, speed_multiplier, segment, step, steps, sim_result>>
  /\ UNCHANGED <<route_vars, risk_vars, svc_vars>>

\* the call of _simulate_segment for segment sim_i, up to its loop
SimulateSegmentBegin ==
  /\ sim_pc = "segment"
  /\ sim_i <= Len(sim_mission.waypoints) - 1
  /\ ~SegmentRaises(sim_mission, speed_multiplier, sim_mission.waypoints[sim_i],
                    sim_mission.waypoints[sim_i + 1])
  /\ segment' = SegmentParameters(sim_mission, speed_multiplier,
                                  sim_mission.waypoints[sim_i],
                                  sim_mission.waypoints[sim_i + 1])
  /\ step' = 0
  /\ steps' = << >>
  /\ sim_pc' = "loop"
  /\ UNCHANGED <<sim_mission, speed_multiplier, sim_i, simulation_steps,
                 current_state, sim_result>>
  /\ UNCHANGED <<route_vars, risk_vars, svc_vars>>

\* _simulate_segment raises before its loop: the except clause of
\* simulate_mission returns the error
SimulateMissionExcept ==
  /\ sim_pc = "segment"
  /\ sim_i <= Len(sim_mission.waypoints) - 1
  /\ SegmentRaises(sim_mission, speed_multiplier, sim_mission.waypoints[sim_i],
                   sim_mission.waypoints[sim_i + 1])
  /\ sim_result' = SimError
  /\ sim_pc' = "done"
  /\ UNCHANGED <<sim_mission, speed_multiplier, sim_i, simulation_steps,
                 current_state, segment, step, steps>>
  /\ UNCHANGED <<route_vars, risk_vars, svc_vars>>

\* one iteration of the loop of _simulate_segment; the loop ends on the
\* break and when range(total_steps) is exhausted
SimulateStep ==
  /\ sim_pc = "loop"
  /\ step < segment.total_steps
  /\ LET state == StepState(sim_mission, speed_multiplier, segment, step,
                            current_state)
     IN  /\ current_state' = state
         /\ steps' = Append(steps, state)
         /\ IF BatteryDepleted(state)
              THEN step' = step /\ sim_pc' = "returned"
              ELSE /\ step' = step + 1
                   /\ sim_pc' = IF step + 1 < segment.total_steps
                                  THEN "loop" ELSE "returned"
  /\ UNCHANGED <<sim_mission, speed_multiplier, sim_i, simulation_steps,
                 segment, sim_result>>
  /\ UNCHANGED <<route_vars, risk_vars, svc_vars>>

\* _simulate_segment has returned: extend simulation_steps, take its last
\* state as current_state, and leave the loop when the battery is depleted
SimulateSegmentEnd ==
  /\ sim_pc = "returned"
  /\ simulation_steps' = simulation_steps \o steps
  /\ current_state' = IF steps # << >> THEN steps[Len(steps)] ELSE current_state
  /\ IF BatteryDepleted(current_state')
       THEN sim_i' = sim_i /\ sim_pc' = "break"
       ELSE sim_i' = sim_i + 1 /\ sim_pc' = "segment"
  /\ UNCHANGED <<sim_mission, speed_multiplier, segment, step, steps, sim_result>>
  /\ UNCHANGED <<route_vars, risk_vars, svc_vars>>

\* after the loop over the segments: the result of simulate_mission
SimulateMissionReturn ==
  /\ \/ sim_pc = "break"
     \/ sim_pc = "segment" /\ sim_i > Len(sim_mission.waypoints) - 1
  /\ LET final_battery == IF simulation_steps # << >>
                            THEN current_state.battery ELSE 0
     IN  sim_result' =
           [kind |-> "ok",
            simulation_steps |->
              [k \in 1..Len(simulation_steps) |-> _state_to_dict(simulation_steps[k])],
            total_duration |-> Len(simulation_steps) * time_step,
            success |-> mission_success(final_battery),
            final_battery |-> final_battery,
            total_distance |-> _calculate_total_distance_flown(simulation_steps)]
  /\ sim_pc' = "done"
  /\ UNCHANGED <<sim_mission, speed_multiplier, sim_i, simulation_steps,
                 current_state, segment, step, steps>>
  /\ UNCHANGED <<route_vars, risk_vars, svc_vars>>

NextSim ==
  \/ SimulateMissionShort
  \/ SimulateMissionBegin
  \/ SimulateSegmentBegin
  \/ SimulateMissionExcept
  \/ SimulateStep
  \/ SimulateSegmentEnd
  \/ SimulateMissionReturn

SpecSim == InitSim /\ [][NextSim]_vars


\* ------------------------------------------------------------------------
\* Properties of the simulator
\* ------------------------------------------------------------------------

\* the states produced so far, those of the running segment included
Timeline ==
  IF sim_pc \in {"loop", "returned"} THEN simulation_steps \o steps
  ELSE simulation_steps

C14_HaltsAtZero ==
  /\ \A k \in 1..(Len(Timeline) - 1) : Timeline[k].battery > 0
  /\ (/\ sim_pc = "done"
      /\ simulation_steps # << >>
      /\ simulation_steps[Len(simulation_steps)].battery = 0)
     => /\ sim_result.kind = "ok"
        /\ sim_result.final_battery = 0
        /\ sim_result.success = FALSE
        /\ Len(sim_result.simulation_steps) = Len(simulation_steps)

C14_Witness ==
  /\ sim_pc = "done"
  /\ sim_result.kind = "ok"
  /\ sim_result.final_battery = 0
  /\ Len(sim_result.simulation_steps) > MinSteps
  /\ sim_i < Len(sim_mission.waypoints) - 1

\* C15: success is true exactly when final_battery is greater than 10
\* percent, final_battery being the battery of the last state of the
\* returned timeline; exactly 10 percent gives success = false.
C15_SuccessIffAboveMargin ==
  sim_result.kind = "ok" =>
    LET t == sim_result.simulation_steps
    IN  /\ t # << >>
        /\ sim_result.final_battery = t[Len(t)].battery
        /\ sim_result.success = (sim_result.final_battery > 10 * 1000000)

C15_Witness ==
  /\ sim_result.kind = "ok"
  /\ sim_result.final_battery = 10 * 1000000
  /\ sim_result.success = FALSE

\* the loop of _simulate_segment has run to its end, not to a break
SegmentCompleted ==
  /\ sim_pc = "returned"
  /\ steps[Len(steps)].battery > 0

\* C16 as stated: a segment simulated to completion has
\* max(10, floor(segment_distance / (max_speed * 0.5))) states, whatever
\* the speed multiplier.
C16_StepsIgnoreMultiplier ==
  SegmentCompleted =>
    Len(steps) = Max(10, (segment.segment_distance * 10)
                           \div (sim_mission.max_speed * 5))

\* C16 amended: a segment simulated to completion has
\* max(10, floor(segment_distance / (max_speed * 0.5 * speed_multiplier)))
\* states.
C16_StepsScaleWithMultiplier ==
  SegmentCompleted =>
    Len(steps) = Max(10, (segment.segment_distance * 100)
                           \div (sim_mission.max_speed * 5 * speed_multiplier))

C16_Witness ==
  /\ SegmentCompleted
  /\ speed_multiplier = 5
  /\ Len(steps) > 10
  /\ Len(steps) # Max(10, (segment.segment_distance * 10)
                            \div (sim_mission.max_speed * 5))


\* ========================================================================
\* RiskPredictor (risk_model.py)
\*
\* Units: route lengths and distances in metres, altitudes in tenths of a
\* metre, wind and gust speeds in tenths of a metre per second, battery
\* margins in thousandths of a percent, scores, risks and the remaining
\* features in thousandths.
\* ========================================================================

RECURSIVE RouteLengthLoop(_, _, _)
RouteLengthLoop(waypoints, k, total_distance) ==
  IF k > Len(waypoints) - 1
    THEN total_distance
    ELSE RouteLengthLoop(waypoints, k + 1,
           total_distance + geodesic(waypoints[k].lat, waypoints[k].lng,
                                     waypoints[k + 1].lat, waypoints[k + 1].lng))

\* _calculate_route_length, in metres
_calculate_route_length(waypoints) == RouteLengthLoop(waypoints, 1, 0)

\* geodesic raises ValueError on a latitude out of range
GeodesicRaises(waypoints) ==
  \E k \in 1..Len(waypoints) : ~ValidLat(waypoints[k].lat)

restricted_zones == << <<37621311, -122378968>>, <<37759859, -122447151>> >>

NoZoneDistance == 10000

\* _min_distance_to_restricted_areas, in metres
_min_distance_to_restricted_areas(waypoints) ==
  LET distances == { geodesic(waypoints[k].lat, waypoints[k].lng,
                              restricted_zones[z][1], restricted_zones[z][2]) :
                       k \in 1..Len(waypoints), z \in 1..Len(restricted_zones) }
  IN  IF distances = {} THEN NoZoneDistance
      ELSE CHOOSE d \in distances : \A e \in distances : d <= e

\* max(mission.waypoints, key=lambda w: w.altitude).altitude, in metres;
\* max() raises ValueError on an empty list
MaxAltitude(waypoints) ==
  CHOOSE a \in {waypoints[k].altitude : k \in 1..Len(waypoints)} :
    \A k \in 1..Len(waypoints) : a >= waypoints[k].altitude

\* the battery margin without its floor at 0
battery_margin_unfloored(margin) == margin

\* max(0.0, battery_margin)
battery_margin_floor(margin) == Max(0, margin)

\* _calculate_battery_margin, in thousandths of a percent, for a mission
\* with at least one waypoint: base_consumption 2.0 percent per km,
\* altitude_factor = max altitude / 100, wind_factor = 1 + (wind / 10) * 0.3
_calculate_battery_margin(m) ==
  LET route_length == _calculate_route_length(m.waypoints)
      wind_speed == Get(m.weather_conditions, "wind_speed", 0)
      still_air == (route_length * 2 * MaxAltitude(m.waypoints)) \div 100
      total_consumption == (still_air * (1000 + (30 * wind_speed))) \div 1000
  IN  battery_margin_floor((m.battery_capacity * 1000) - total_consumption)

\* _count_waypoints_over_buildings
_count_waypoints_over_buildings(waypoints) ==
  Cardinality({ k \in 1..Len(waypoints) :
                  /\ 37770000 < waypoints[k].lat /\ waypoints[k].lat < 37790000
                  /\ -122420000 < waypoints[k].lng /\ waypoints[k].lng < -122400000 })

max_segment_length == 5000

\* _check_line_of_sight
_check_line_of_sight(waypoints) ==
  \A k \in 1..(Len(waypoints) - 1) :
    geodesic(waypoints[k].lat, waypoints[k].lng,
             waypoints[k + 1].lat, waypoints[k + 1].lng) <= max_segment_length

RECURSIVE RoughnessLoop(_, _, _)
RoughnessLoop(waypoints, k, roughness_sum) ==
  IF k > Len(waypoints)
    THEN roughness_sum
    ELSE RoughnessLoop(waypoints, k + 1,
           roughness_sum
           + (IF /\ 37750000 < waypoints[k].lat /\ waypoints[k].lat < 37780000
                 /\ -122450000 < waypoints[k].lng /\ waypoints[k].lng < -122420000
                THEN 800 ELSE 200))

\* _calculate_terrain_roughness, in thousandths
_calculate_terrain_roughness(waypoints) ==
  IF waypoints = << >> THEN 0
  ELSE RoughnessLoop(waypoints, 1, 0) \div Len(waypoints)

RECURSIVE TurnLoop(_, _, _)
TurnLoop(waypoints, k, total_turn_angle) ==
  IF k > Len(waypoints) - 1
    THEN total_turn_angle
    ELSE LET vec1_lat == waypoints[k].lat - waypoints[k - 1].lat
             vec1_lng == waypoints[k].lng - waypoints[k - 1].lng
             vec2_lat == waypoints[k + 1].lat - waypoints[k].lat
             vec2_lng == waypoints[k + 1].lng - waypoints[k].lng
         IN  TurnLoop(waypoints, k + 1,
               total_turn_angle + Abs(vec1_lat - vec2_lat) + Abs(vec1_lng - vec2_lng))

\* _calculate_route_complexity, in thousandths:
\* min(1.0, (total_turn_angle * 100 + len(waypoints)) / max(1.0, route_length))
\* with total_turn_angle in micro-degrees and route_length in metres
_calculate_route_complexity(m) ==
  IF Len(m.waypoints) < 3 THEN 100
  ELSE LET total_turn_angle == TurnLoop(m.waypoints, 2, 0)
           numerator == (total_turn_angle \div 10) + (Len(m.waypoints) * 1000)
           denominator == Max(1000, _calculate_route_length(m.waypoints))
       IN  IF numerator >= denominator THEN 1000
           ELSE (numerator * 1000) \div denominator

\* the vector the except clause of _extract_features returns:
\* [1.0, 100.0, 100.0, 1000.0, 5.0, 7.0, 50.0, 0, 1, 0.1, 0.2, 0.1]
SafeDefaults == <<1000, 1000, 1000, 1000, 50, 70, 50000, 0, 1, 100, 200, 100>>

\* what raises inside the try of _extract_features: geodesic on a latitude
\* out of range, and max(altitudes) on an empty list
ExtractRaises(m) == GeodesicRaises(m.waypoints) \/ m.waypoints = << >>

RECURSIVE SumAltitudes(_, _)
SumAltitudes(waypoints, k) ==
  IF k > Len(waypoints) THEN 0
  ELSE waypoints[k].altitude + SumAltitudes(waypoints, k + 1)

\* the feature vector the try of _extract_features computes, in the order of
\* feature_names
ComputedFeatures(m) ==
  LET wind_speed_avg == Get(m.weather_conditions, "wind_speed", 5) * 10
      gust_max == IF "gust_speed" \in DOMAIN m.weather_conditions
                    THEN m.weather_conditions["gust_speed"] * 10
                    ELSE (wind_speed_avg * 15) \div 10
  IN  << _calculate_route_length(m.waypoints),
         (SumAltitudes(m.waypoints, 1) * 10) \div Len(m.waypoints),
         MaxAltitude(m.waypoints) * 10,
         _min_distance_to_restricted_areas(m.waypoints),
         wind_speed_avg,
         gust_max,
         _calculate_battery_margin(m),
         _count_waypoints_over_buildings(m.waypoints),
         IF _check_line_of_sight(m.waypoints) THEN 1 ELSE 0,
         _calculate_terrain_roughness(m.waypoints),
         Min(1000, (wind_speed_avg * 100) \div 15),
         _calculate_route_complexity(m) >>

\* _extract_features
_extract_features(m) ==
  IF ExtractRaises(m) THEN SafeDefaults ELSE ComputedFeatures(m)

\* what raises in _fallback_risk_calculation and _fallback_risk_explanation:
\* geodesic on a latitude out of range, and max() on an empty waypoint list
\* in _calculate_battery_margin
FallbackRaises(m) == GeodesicRaises(m.waypoints) \/ m.waypoints = << >>

\* the sum of the four terms without the cap at 1.0
risk_score_uncapped(risk_score) == risk_score

\* min(1.0, risk_score)
risk_score_cap(risk_score) == Min(1000, risk_score)

\* _fallback_risk_calculation, in thousandths
_fallback_risk_calculation(m) ==
  LET route_length == _calculate_route_length(m.waypoints)
      battery_margin == _calculate_battery_margin(m)
      wind_speed == Get(m.weather_conditions, "wind_speed", 0)
      min_distance == _min_distance_to_restricted_areas(m.waypoints)
      route_term == IF route_length > 10000 THEN 300
                    ELSE IF route_length > 5000 THEN 100
                    ELSE 0
      battery_term == IF battery_margin < 10000 THEN 400
                      ELSE IF battery_margin < 20000 THEN 200
                      ELSE 0
      weather_term == IF m.weather_conditions = NoWeather THEN 0
                      ELSE IF wind_speed > 15 THEN 300
                      ELSE IF wind_speed > 10 THEN 100
                      ELSE 0
      zone_term == IF min_distance < 500 THEN 400
                   ELSE IF min_distance < 1000 THEN 200
                   ELSE 0
  IN  risk_score_cap(route_term + battery_term + weather_term + zone_term)

\* _fallback_risk_explanation, in thousandths
_fallback_risk_explanation(m) ==
  LET route_length == _calculate_route_length(m.waypoints)
      battery_margin == _calculate_battery_margin(m)
      min_distance == _min_distance_to_restricted_areas(m.waypoints)
      wind_speed == Get(m.weather_conditions, "wind_speed", 0)
  IN  [weather_risk  |-> Min(1000, wind_speed * 50),
       battery_risk  |-> Max(0, (30000 - battery_margin) \div 30),
       no_fly_risk   |-> Max(0, 1000 - min_distance),
       terrain_risk  |-> 200,
       route_risk    |-> Min(1000, route_length \div 15),
       altitude_risk |-> 100]

\* the category values of a risk breakdown
BreakdownValues(b) ==
  {b.weather_risk, b.battery_risk, b.no_fly_risk, b.terrain_risk,
   b.route_risk, b.altitude_risk}

\* max(risk_breakdown.values())
MaxValue(b) == CHOOSE v \in BreakdownValues(b) : \A w \in BreakdownValues(b) : v >= w

\* the grouping of the attributions sv (in the order of feature_names)
\* into the six categories
GroupAttributions(sv) ==
  [weather_risk  |-> Max(0, sv[5] + sv[6] + sv[11]) \div 3,
   battery_risk  |-> Abs(sv[7]),
   no_fly_risk   |-> Abs(sv[4]),
   terrain_risk  |-> Max(0, sv[10] + sv[8]) \div 2,
   route_risk    |-> Max(0, sv[1] + sv[12]) \div 2,
   altitude_risk |-> Max(0, sv[2] + sv[3]) \div 2]

\* min(1.0, max(0.0, v / max_val))
Normalized(v, max_val) == Min(1000, Max(0, (v * 1000) \div max_val))

\* the learned path of explain_risk from the grouping on
LearnedExplanation(sv) ==
  LET b == GroupAttributions(sv)
      max_val == MaxValue(b)
  IN  IF max_val > 0
        THEN [weather_risk  |-> Normalized(b.weather_risk, max_val),
              battery_risk  |-> Normalized(b.battery_risk, max_val),
              no_fly_risk   |-> Normalized(b.no_fly_risk, max_val),
              terrain_risk  |-> Normalized(b.terrain_risk, max_val),
              route_risk    |-> Normalized(b.route_risk, max_val),
              altitude_risk |-> Normalized(b.altitude_risk, max_val)]
        ELSE b

\* Missions handed to the RiskPredictor
RiskMissions ==
  { \* the three-waypoint scenario over San Francisco
    Mission(<< Waypoint(37774900, -122419400, 100),
               Waypoint(37784900, -122409400, 120),
               Waypoint(37794900, -122399400, 100) >>,
            90, 15, [wind_speed |-> 3, gust_speed |-> 5]),
    \* no waypoint
    Mission(<< >>, 100, 15, NoWeather),
    \* one waypoint
    Mission(<< Waypoint(10000000, 10000000, 100) >>, 100, 15, NoWeather),
    \* one waypoint at the default altitude over a restricted zone
    Mission(<< Waypoint(37759859, -122447151, 100) >>, 50, 15,
            [wind_speed |-> 5, gust_speed |-> 7]),
    \* 15 km in a strong wind on a weak battery
    Mission(<< Waypoint(10000000, 10000000, 100), Waypoint(10100000, 10100000, 100) >>,
            30, 8, [wind_speed |-> 22, gust_speed |-> 30]),
    \* the same, leaving from the centre of a restricted zone
    Mission(<< Waypoint(37621311, -122378968, 100), Waypoint(37721311, -122278968, 100) >>,
            30, 8, [wind_speed |-> 22, gust_speed |-> 30]),
    \* two identical waypoints, a weather dict without wind_speed
    Mission(<< Waypoint(10000000, 10000000, 100), Waypoint(10000000, 10000000, 100) >>,
            100, 15, [gust_speed |-> 7]),
    \* two identical waypoints, the wind at the default of the features
    Mission(<< Waypoint(10000000, 10000000, 100), Waypoint(10000000, 10000000, 100) >>,
            100, 15, [wind_speed |-> 5, gust_speed |-> 7]),
    \* between 5 and 10 km, a moderate wind, a battery margin under 20
    Mission(<< Waypoint(10000000, 10000000, 100), Waypoint(10060000, 10000000, 100) >>,
            35, 15, [wind_speed |-> 12, gust_speed |-> 18]),
    \* a turn over the hills, 750 m from a restricted zone
    Mission(<< Waypoint(37766600, -122447151, 150), Waypoint(37770600, -122440000, 150),
               Waypoint(37766600, -122433000, 150) >>,
            60, 15, NoWeather),
    \* a latitude out of range
    Mission(<< Waypoint(10000000, 10000000, 100), Waypoint(91000000, 10000000, 100) >>,
            100, 15, NoWeather) }

\* self.model and self.explainer after __init__: neither, the model loaded
\* from its file without an explainer, or both after training
ModelStates == {"none", "model", "model_and_explainer"}

\* what explainer.shap_values attributes to the 12 features, in
\* thousandths; the empty tuple stands for a call that raises
ShapOutcomes ==
  { << >>,
    <<0, 0, 0, 0, 0, 0, 0, 0, 0, 0, 0, 0>>,
    <<120, -30, 40, -250, 90, 60, -400, 10, 0, 35, 75, -20>>,
    <<-120, -30, -40, 0, -90, -60, 0, -10, 0, -35, -75, -20>> }

\* what model.predict_proba gives for the high-risk class, in thousandths;
\* -1 stands for a call that raises
Probabilities == {-1, 0, 370, 1000}

RiskRaised == [kind |-> "raised"]

InitRisk ==
  /\ risk_mission \in RiskMissions
  /\ model \in ModelStates
  /\ shap_values \in ShapOutcomes
  /\ risk_pc = "call"
  /\ features = << >>
  /\ risk_result = [kind |-> "none"]
  /\ RouteIdle
  /\ SimIdle
  /\ SvcIdle

\* _extract_features(mission)
ExtractFeatures ==
  /\ risk_pc = "call"
  /\ features' = _extract_features(risk_mission)
  /\ risk_result' = [kind |-> "features"]
  /\ risk_pc' = "extract"
  /\ UNCHANGED <<risk_mission, model, shap_values>>
  /\ UNCHANGED <<route_vars, sim_vars, svc_vars>>

\* predict_mission_risk with a model whose predict_proba returns
PredictLearned ==
  /\ risk_pc = "call"
  /\ model # "none"
  /\ \E risk_prob \in Probabilities :
       /\ risk_prob >= 0
       /\ risk_result' = [kind |-> "score", strategy |-> "learned",
                          score |-> risk_prob]
  /\ features' = _extract_features(risk_mission)
  /\ risk_pc' = "predict"
  /\ UNCHANGED <<risk_mission, model, shap_values>>
  /\ UNCHANGED <<route_vars, sim_vars, svc_vars>>

\* predict_mission_risk without a model, or with a model whose
\* predict_proba raises: the rule-based score
PredictFallback ==
  /\ risk_pc = "call"
  /\ \/ model = "none" /\ features' = features
     \/ /\ model # "none"
        /\ \E risk_prob \in Probabilities : risk_prob < 0
        /\ features' = _extract_features(risk_mission)
  /\ ~FallbackRaises(risk_mission)
  /\ risk_result' = [kind |-> "score", strategy |-> "fallback",
                     score |-> _fallback_risk_calculation(risk_mission)]
  /\ risk_pc' = "predict"
  /\ UNCHANGED <<risk_mission, model, shap_values>>
  /\ UNCHANGED <<route_vars, sim_vars, svc_vars>>

\* predict_mission_risk when _fallback_risk_calculation raises: inside the
\* try it is caught by the except clause, which calls it again
PredictRaises ==
  /\ risk_pc = "call"
  /\ \/ model = "none" /\ features' = features
     \/ /\ model # "none"
        /\ \E risk_prob \in Probabilities : risk_prob < 0
        /\ features' = _extract_features(risk_mission)
  /\ FallbackRaises(risk_mission)
  /\ risk_result' = RiskRaised
  /\ risk_pc' = "predict"
  /\ UNCHANGED <<risk_mission, model, shap_values>>
  /\ UNCHANGED <<route_vars, sim_vars, svc_vars>>

\* explain_risk with a model and an explainer whose shap_values returns
ExplainLearned ==
  /\ risk_pc = "call"
  /\ model = "model_and_explainer"
  /\ shap_values # << >>
  /\ features' = _extract_features(risk_mission)
  /\ risk_result' = [kind |-> "breakdown", strategy |-> "learned",
                     breakdown |-> LearnedExplanation(shap_values)]
  /\ risk_pc' = "explain"
  /\ UNCHANGED <<risk_mission, model, shap_values>>
  /\ UNCHANGED <<route_vars, sim_vars, svc_vars>>

\* explain_risk without a model or an explainer, or with an explainer
\* whose shap_values raises: the rule-based explanation
ExplainFallback ==
  /\ risk_pc = "call"
  /\ \/ model # "model_and_explainer" /\ features' = features
     \/ /\ model = "model_and_explainer"
        /\ shap_values = << >>
        /\ features' = _extract_features(risk_mission)
  /\ ~FallbackRaises(risk_mission)
  /\ risk_result' = [kind |-> "breakdown", strategy |-> "fallback",
                     breakdown |-> _fallback_risk_explanation(risk_mission)]
  /\ risk_pc' = "explain"
  /\ UNCHANGED <<risk_mission, model, shap_values>>
  /\ UNCHANGED <<route_vars, sim_vars, svc_vars>>

\* explain_risk when _fallback_risk_explanation raises
ExplainRaises ==
  /\ risk_pc = "call"
  /\ \/ model # "model_and_explainer" /\ features' = features
     \/ /\ model = "model_and_explainer"
        /\ shap_values = << >>
        /\ features' = _extract_features(risk_mission)
  /\ FallbackRaises(risk_mission)
  /\ risk_result' = RiskRaised
  /\ risk_pc' = "explain"
  /\ UNCHANGED <<risk_mission, model, shap_values>>
  /\ UNCHANGED <<route_vars, sim_vars, svc_vars>>

NextRisk ==
  \/ ExtractFeatures
  \/ PredictLearned
  \/ PredictFallback
  \/ PredictRaises
  \/ ExplainLearned
  \/ ExplainFallback
  \/ ExplainRaises

SpecRisk == InitRisk /\ [][NextRisk]_vars

\* ------------------------------------------------------------------------
\* Properties of the risk predictor
\* ------------------------------------------------------------------------

\* C17: the rule-based score is min(1, a + b + c + d), the four terms read
\* off the mission's features (route_length_km, battery_margin,
\* wind_speed_avg, min_distance_to_no_fly); it lies in [0, 1], and a
\* mission with the same feature vector gets the same score.
C17_FallbackScoreRule ==
  (risk_result.kind = "score" /\ risk_result.strategy = "fallback") =>
    LET f == _extract_features(risk_mission)
        a == IF f[1] > 10000 THEN 300 ELSE IF f[1] > 5000 THEN 100 ELSE 0
        b == IF f[7] < 10000 THEN 400 ELSE IF f[7] < 20000 THEN 200 ELSE 0
        c == IF f[5] > 150 THEN 300 ELSE IF f[5] > 100 THEN 100 ELSE 0
        d == IF f[4] < 500 THEN 400 ELSE IF f[4] < 1000 THEN 200 ELSE 0
    IN  /\ risk_result.score = (IF a + b + c + d > 1000 THEN 1000 ELSE a + b + c + d)
        /\ risk_result.score >= 0
        /\ risk_result.score <= 1000
        /\ \A other \in RiskMissions :
             (~FallbackRaises(other) /\ _extract_features(other) = f)
               => _fallback_risk_calculation(other) = risk_result.score

C17_Witness ==
  /\ risk_result.kind = "score"
  /\ risk_result.strategy = "fallback"
  /\ risk_result.score = 1000
  /\ _calculate_route_length(risk_mission.waypoints) > 10000
  /\ _min_distance_to_restricted_areas(risk_mission.waypoints) < 500
  /\ Get(risk_mission.weather_conditions, "wind_speed", 0) > 15

C19_MaxCategoryIsOne ==
  risk_result.kind = "breakdown" =>
    LET b == risk_result.breakdown
        values == {b.weather_risk, b.battery_risk, b.no_fly_risk,
                   b.terrain_risk, b.route_risk, b.altitude_risk}
    IN  (\E v \in values : v # 0) => (\E v \in values : v = 1000)
                                       /\ (\A v \in values : v <= 1000)

\* C20: feature extraction on a mission with fewer than 2 waypoints
\* returns [1.0, 100.0, 100.0, 1000.0, 5.0, 7.0, 50.0, 0, 1, 0.1, 0.2, 0.1].
C20_SafeDefaultsBelowTwoWaypoints ==
  (risk_pc = "extract" /\ Len(risk_mission.waypoints) < 2) =>
    features = <<1000, 1000, 1000, 1000, 50, 70, 50000, 0, 1, 100, 200, 100>>


\* C21: predict_mission_risk and explain_risk never raise: without a
\* model, with a model that fails, and for a mission with fewer than 2
\* waypoints (the empty list included) they return the rule-based value.
C21_RiskNeverRaises ==
  risk_pc \in {"predict", "explain"} =>
    /\ risk_result.kind # "raised"
    /\ (model = "none" => risk_result.strategy = "fallback")


\* C22: every neighbor generated during expansion has an altitude of at
\* least 50 m, and so has every point after the first of a found path.
\* (nodes[1] is the start node; the others were generated as neighbors.)
C22_NeighborsAtLeast50 ==
  /\ \A k \in 2..Len(nodes) : nodes[k].altitude >= 50
  /\ pc = "found" =>
       \A k \in 2..Len(optimal_segment) : optimal_segment[k].altitude >= 50


\* C23: the battery_margin feature is max(0, battery_capacity
\* - route_length_km * 2.0 * (max_altitude / 100) * (1 + 0.3 * wind / 10))
\* with wind the wind_speed_avg of the same feature vector, also when the
\* mission carries no weather.  (features[1] route length, features[3]
\* max altitude, features[5] wind_speed_avg, features[7] battery_margin.)
C23_MarginUsesFeatureWind ==
  (/\ risk_pc = "extract"
   /\ risk_mission.waypoints # << >>
   /\ \A k \in 1..Len(risk_mission.waypoints) :
        Abs(risk_mission.waypoints[k].lat) <= 90000000) =>
    LET still_air == (features[1] * 2 * (features[3] \div 10)) \div 100
        consumption == (still_air * (1000 + (3 * features[5]))) \div 1000
        margin == (risk_mission.battery_capacity * 1000) - consumption
    IN  features[7] = (IF margin < 0 THEN 0 ELSE margin)


\* C24: the k-th state of the returned timeline has timestamp k * 0.5 s,
\* across segment boundaries too, and total_duration is the number of
\* states times 0.5 s, the timestamp of the last state.
C24_TimestampsCount ==
  sim_result.kind = "ok" =>
    LET t == sim_result.simulation_steps
    IN  /\ \A k \in 1..Len(t) : t[k].timestamp = k * 5
        /\ sim_result.total_duration = Len(t) * 5
        /\ t # << >> => sim_result.total_duration = t[Len(t)].timestamp

C24_Witness ==
  /\ sim_result.kind = "ok"
  /\ sim_i > 2
  /\ Len(sim_result.simulation_steps) > 2 * MinSteps
  /\ sim_result.total_duration
       = sim_result.simulation_steps[Len(sim_result.simulation_steps)].timestamp


\* C27: scoring and explanation use the same strategy on one predictor:
\* when explain_risk returns the rule-based explanation although the
\* explainer call itself would not have raised, the predictor has no model,
\* so predict_mission_risk is rule-based as well
C27_SameStrategy ==
  (/\ risk_pc = "explain"
   /\ risk_result.kind = "breakdown"
   /\ risk_result.strategy = "fallback"
   /\ shap_values # << >>) => model = "none"


\* C29: at every iteration of a per-pair search no two nodes of OPEN have
\* the same identity, no identity is both in OPEN and in CLOSED, and no
\* identity is in CLOSED twice (each identity is expanded at most once)
C29_OpenClosedDistinct ==
  pc \in {"loop", "found", "raised"} =>
    /\ \A a, b \in 1..Len(open_set) :
         a # b => ~NodeEq(nodes[open_set[a]], nodes[open_set[b]])
    /\ \A a \in 1..Len(open_set) : \A c \in closed_set :
         ~NodeEq(nodes[open_set[a]], nodes[c])
    /\ \A c, d \in closed_set : c # d => ~NodeEq(nodes[c], nodes[d])

\* two expanded nodes have generated the same neighbor identity, which is in
\* OPEN once
C29_Witness ==
  /\ pc = "loop"
  /\ \E a, b \in closed_set : \E j \in 1..Len(open_set) :
       LET goal_node == Node(goal.lat, goal.lng, goal.altitude)
           na == _get_neighbors(nodes[a], goal_node)
           nb == _get_neighbors(nodes[b], goal_node)
       IN  /\ a # b
           /\ \E k \in 1..Len(na) : NodeEq(na[k], nodes[open_set[j]])
           /\ \E k \in 1..Len(nb) : NodeEq(nb[k], nodes[open_set[j]])


\* the nodes met by following node.parent from node id, at most fuel of them
RECURSIVE ParentChain(_, _, _)
ParentChain(ns, id, fuel) ==
  IF id = 0 \/ fuel = 0 THEN << >>
  ELSE <<id>> \o ParentChain(ns, ns[id].parent, fuel - 1)

\* the sum of the edge costs along a parent chain, from its far end
RECURSIVE ChainCost(_, _, _, _)
ChainCost(sc, ns, chain, k) ==
  IF k >= Len(chain) THEN 0
  ELSE ChainCost(sc, ns, chain, k + 1)
         + _calculate_edge_cost(sc, ns[chain[k + 1]], ns[chain[k]])

\* the nodes popped so far in the running per-pair search
Popped ==
  closed_set \cup (IF pc = "found" THEN {current} ELSE {})

\* C30: from every popped node the parent links reach the start node
\* without visiting a node twice, and the node's g-cost is the sum of the
\* edge costs along that chain; a found path begins with the start
\* waypoint and each of its steps goes from a node to one of the neighbors
\* generated for it
C30_ParentChainToStart ==
  pc \in {"loop", "found", "raised"} =>
    /\ \A c \in Popped :
         LET chain == ParentChain(nodes, c, Len(nodes) + 1)
         IN  /\ chain[Len(chain)] = 1
             /\ NodeEq(nodes[1], Node(start.lat, start.lng, start.altitude))
             /\ \A a, b \in 1..Len(chain) : a # b => chain[a] # chain[b]
             /\ nodes[c].g_cost = ChainCost(scorer, nodes, chain, 1)
    /\ pc = "found" =>
         /\ optimal_segment[1] = start
         /\ \A k \in 1..(Len(optimal_segment) - 1) :
              LET from == optimal_segment[k]
                  to == optimal_segment[k + 1]
                  neighbors == _get_neighbors(
                                 Node(from.lat, from.lng, from.altitude),
                                 Node(goal.lat, goal.lng, goal.altitude))
              IN  \E n \in 1..Len(neighbors) :
                    NodeEq(neighbors[n], Node(to.lat, to.lng, to.altitude))

\* a found path of three or more points whose last node has a positive g-cost
C30_Witness ==
  /\ pc = "found"
  /\ Len(optimal_segment) >= 3
  /\ Len(ParentChain(nodes, current, Len(nodes) + 1)) = Len(optimal_segment)
  /\ nodes[current].g_cost > 0
  /\ nodes[current].g_cost < Inf


\* ------------------------------------------------------------------------
\* MissionService.plan_mission, SimulationService.simulate_mission and the
\* two tables of database.py.  The clock counts ticks of half a second;
\* a mission_id is the whole second of the clock, which is all that
\* strftime('%Y%m%d_%H%M%S') keeps of datetime.now().  Coordinates are
\* micro-degrees, battery percent, speeds m/s, distances metres.  A
\* simulation is carried as the pair of the Mission and the multiplier
\* handed to MissionSimulator.simulate_mission, whose timeline SpecSim
\* computes; the risk outputs of plan_mission are those of SpecRisk and
\* are not carried in the rows.
\* ------------------------------------------------------------------------

MaxClock == 3

TicksPerSecond == 2

\* f"mission_{datetime.now().strftime('%Y%m%d_%H%M%S')}"
mission_id_at(now) == now \div TicksPerSecond

\* the attributes of a row of the missions table
MissionColumns ==
  {"id", "mission_id", "name", "description", "waypoints", "battery_capacity",
   "max_speed", "risk_score", "total_distance", "estimated_duration",
   "optimized_route", "risk_breakdown", "warnings", "created_at", "updated_at",
   "is_completed"}

\* DBMission(mission_id=..., waypoints=..., ...)
DBMission(mission_id, waypoints, battery_capacity, max_speed, total_distance, estimated_duration, optimized_route) ==
  [mission_id |-> mission_id, waypoints |-> waypoints,
   battery_capacity |-> battery_capacity, max_speed |-> max_speed,
   total_distance |-> total_distance, estimated_duration |-> estimated_duration,
   optimized_route |-> optimized_route]

\* the unique constraint on missions.mission_id rejects the insert
UniqueViolation(rows, mission_id) ==
  \E k \in 1..Len(rows) : rows[k].mission_id = mission_id

\* db.query(DBMission).filter(DBMission.mission_id == mission_id).first():
\* the indices of the matching rows
QueryMission(rows, mission_id) ==
  {k \in 1..Len(rows) : rows[k].mission_id = mission_id}

\* MissionPlanRequest values (at least two waypoints, battery 0..100,
\* max_speed 1..50)
PlanRequests ==
  { [waypoints |-> << Waypoint(10000000, 10000000, 100),
                      Waypoint(10002000, 10000000, 100) >>,
     battery_capacity |-> 90, max_speed |-> 15],
    [waypoints |-> << Waypoint(37774900, -122419400, 100),
                      Waypoint(37784900, -122409400, 120),
                      Waypoint(37794900, -122399400, 100) >>,
     battery_capacity |-> 60, max_speed |-> 12] }

\* what optimize_route can return for these waypoints: the waypoints
\* themselves, or a route through a grid point next to the first waypoint
RouteOutcomes(waypoints) ==
  { waypoints,
    <<waypoints[1],
      Waypoint(waypoints[1].lat + grid_resolution, waypoints[1].lng,
               waypoints[1].altitude)>>
      \o Tail(waypoints) }

\* self._calculate_total_distance(optimized_waypoints)
_calculate_total_distance(waypoints) == RouteLengthLoop(waypoints, 1, 0)

\* the locals of plan_mission once the mission_id is generated
Planned(request, session, now, optimized) ==
  LET total_distance == _calculate_total_distance(optimized)
      estimated_duration == total_distance \div request.max_speed
  IN  [pc |-> "planned",
       db |-> session,
       mission_id |-> mission_id_at(now),
       db_mission |-> DBMission(mission_id_at(now), request.waypoints,
                                request.battery_capacity, request.max_speed,
                                total_distance, estimated_duration,
                                optimized)]

\* MissionSimulator.simulate_mission(internal_mission, speed_multiplier)
SimulationOf(m, multiplier) ==
  IF \/ Len(m.waypoints) < 2
     \/ \E k \in 1..(Len(m.waypoints) - 1) :
          SegmentRaises(m, multiplier, m.waypoints[k], m.waypoints[k + 1])
    THEN SimError
    ELSE [kind |-> "ok", mission |-> m, speed_multiplier |-> multiplier]

\* the "Fallback synthetic mission (demo headless mode)"
SyntheticMission ==
  Mission(<< Waypoint(37774900, -122419400, 100),
             Waypoint(37784900, -122409400, 120) >>,
          80, 12, [wind_speed |-> 5, gust_speed |-> 7])

\* the structured fallback of the except clause
SimulationFallback(request) ==
  [mission_id |-> request.mission_id, simulation_id |-> "sim_error",
   simulation |-> [kind |-> "fallback"]]

\* the dict simulate_mission returns after a simulation
SimulationResponse(request, simulation_id, simulation) ==
  [mission_id |-> request.mission_id, simulation_id |-> simulation_id,
   simulation |-> simulation]

\* SimulationRequest values
SimulationRequests ==
  { [mission_id |-> id, speed_multiplier |-> 10] :
      id \in 0..(MaxClock \div TicksPerSecond) }

\* int(np.random.random() * 10000)
SimulationNumbers == {0, 9999}

\* a row read from the missions table has no attribute weather_conditions:
\* the read raises AttributeError
AttributeRaises(name) == name \notin MissionColumns

InitService ==
  /\ SvcIdle
  /\ RouteIdle
  /\ SimIdle
  /\ RiskIdle

\* time passes
Tick ==
  /\ clock < MaxClock
  /\ clock' = clock + 1
  /\ UNCHANGED <<db_missions, db_simulation_runs, planning, service_result>>
  /\ UNCHANGED <<route_vars, sim_vars, risk_vars>>

\* plan_mission up to the generated mission_id and the converted route
PlanMissionPrepare(c) ==
  /\ planning[c].pc = "idle"
  /\ \E request \in PlanRequests : \E session \in BOOLEAN :
       \E optimized \in RouteOutcomes(request.waypoints) :
         planning' = [planning EXCEPT
                        ![c] = Planned(request, session, clock, optimized)]
  /\ UNCHANGED <<clock, db_missions, db_simulation_runs, service_result>>
  /\ UNCHANGED <<route_vars, sim_vars, risk_vars>>

\* plan_mission with a session: db.add, db.commit, and the response
PlanMissionCommit(c) ==
  /\ planning[c].pc = "planned"
  /\ planning[c].db
  /\ ~UniqueViolation(db_missions, planning[c].mission_id)
  /\ db_missions' = Append(db_missions, planning[c].db_mission)
  /\ planning' = [planning EXCEPT ![c].pc = "returned"]
  /\ UNCHANGED <<clock, db_simulation_runs, service_result>>
  /\ UNCHANGED <<route_vars, sim_vars, risk_vars>>

\* plan_mission with a session when db.commit raises IntegrityError: the
\* except clause logs and re-raises
PlanMissionIntegrityError(c) ==
  /\ planning[c].pc = "planned"
  /\ planning[c].db
  /\ UniqueViolation(db_missions, planning[c].mission_id)
  /\ planning' = [planning EXCEPT ![c].pc = "raised"]
  /\ UNCHANGED <<clock, db_missions, db_simulation_runs, service_result>>
  /\ UNCHANGED <<route_vars, sim_vars, risk_vars>>

\* plan_mission without a session: the response only
PlanMissionHeadless(c) ==
  /\ planning[c].pc = "planned"
  /\ ~planning[c].db
  /\ planning' = [planning EXCEPT ![c].pc = "returned"]
  /\ UNCHANGED <<clock, db_missions, db_simulation_runs, service_result>>
  /\ UNCHANGED <<route_vars, sim_vars, risk_vars>>

\* SimulationService.simulate_mission with a session and no stored mission
ServiceSimulateNotFound ==
  /\ \E request \in SimulationRequests :
       /\ QueryMission(db_missions, request.mission_id) = {}
       /\ service_result' = [kind |-> "returned", request |-> request,
                             db |-> TRUE, mission |-> 0,
                             response |-> SimulationFallback(request)]
  /\ UNCHANGED <<clock, db_missions, db_simulation_runs, planning>>
  /\ UNCHANGED <<route_vars, sim_vars, risk_vars>>

\* SimulationService.simulate_mission with a session and a stored mission
ServiceSimulateStored ==
  /\ \E request \in SimulationRequests :
     \E k \in QueryMission(db_missions, request.mission_id) :
     \E number \in SimulationNumbers :
       LET stored == db_missions[k]
           simulation_id == <<"sim", request.mission_id, number>>
           simulation_result ==
             SimulationOf(Mission(stored.optimized_route, stored.battery_capacity,
                                  stored.max_speed, NoWeather),
                          request.speed_multiplier)
           raises ==
             \/ AttributeRaises("weather_conditions")
             \/ simulation_result = SimError
             \/ \E n \in 1..Len(db_simulation_runs) :
                  db_simulation_runs[n].simulation_id = simulation_id
       IN  /\ k = CHOOSE first \in QueryMission(db_missions, request.mission_id) :
                    \A other \in QueryMission(db_missions, request.mission_id) :
                      first <= other
           /\ service_result' =
                [kind |-> "returned", request |-> request, db |-> TRUE,
                 mission |-> k,
                 response |-> IF raises
                                THEN SimulationFallback(request)
                                ELSE SimulationResponse(request, simulation_id,
                                                        simulation_result)]
           /\ db_simulation_runs' =
                IF raises THEN db_simulation_runs
                ELSE Append(db_simulation_runs,
                            [mission_id |-> request.mission_id,
                             simulation_id |-> simulation_id,
                             speed_multiplier |-> request.speed_multiplier,
                             simulation |-> simulation_result])
  /\ UNCHANGED <<clock, db_missions, planning>>
  /\ UNCHANGED <<route_vars, sim_vars, risk_vars>>

\* SimulationService.simulate_mission without a session: the synthetic
\* mission
ServiceSimulateLocal ==
  /\ \E request \in SimulationRequests :
       LET simulation_result ==
             SimulationOf(SyntheticMission, request.speed_multiplier)
       IN  service_result' =
             [kind |-> "returned", request |-> request, db |-> FALSE,
              mission |-> 0,
              response |-> IF simulation_result = SimError
                             THEN SimulationFallback(request)
                             ELSE SimulationResponse(request, "sim_local",
                                                     simulation_result)]
  /\ UNCHANGED <<clock, db_missions, db_simulation_runs, planning>>
  /\ UNCHANGED <<route_vars, sim_vars, risk_vars>>

NextService ==
  \/ Tick
  \/ \E c \in Callers : PlanMissionPrepare(c)
  \/ \E c \in Callers : PlanMissionCommit(c)
  \/ \E c \in Callers : PlanMissionIntegrityError(c)
  \/ \E c \in Callers : PlanMissionHeadless(c)
  \/ ServiceSimulateNotFound
  \/ ServiceSimulateStored
  \/ ServiceSimulateLocal

SpecService == InitService /\ [][NextService]_vars

\* C25: when simulate_mission is called with a session and the mission_id of
\* a stored mission, it returns the simulation of the stored optimized
\* route with the stored battery capacity and max speed, not the error
\* fallback
C25_StoredMissionSimulated ==
  (service_result.kind = "returned" /\ service_result.mission # 0) =>
    LET stored == db_missions[service_result.mission]
        simulation == service_result.response.simulation
    IN  /\ service_result.response.simulation_id # "sim_error"
        /\ simulation.kind = "ok"
        /\ simulation.mission.waypoints = stored.optimized_route
        /\ simulation.mission.battery_capacity = stored.battery_capacity
        /\ simulation.mission.max_speed = stored.max_speed

\* C26: any two plan_mission calls generate distinct mission_id values and
\* no call fails on the unique constraint
C26_MissionIdsDistinct ==
  /\ \A c, d \in Callers :
       (c # d /\ planning[c].pc # "idle" /\ planning[d].pc # "idle") =>
         planning[c].mission_id # planning[d].mission_id
  /\ \A c \in Callers : planning[c].pc # "raised"


\* ------------------------------------------------------------------------
\* The four operations called on one Mission, in any order and interleaved:
\* optimize_route, simulate_mission, and one of predict_mission_risk,
\* explain_risk and _extract_features, as plan_mission and the simulation
\* service hand them the same Mission object.
\* ------------------------------------------------------------------------

\* The Mission handed to all the operations, the risk_predictor handed to
\* optimize_route and the state of the RiskPredictor object
CallScenarios ==
  { \* a short hop on a battery that ends just under the safety margin
    [m |-> Mission(<< Waypoint(10000000, 10000000, 100),
                      Waypoint(10003000, 10000000, 100) >>,
                   11, 15, [wind_speed |-> 10, gust_speed |-> 12]),
     scorer |-> "safe", model |-> "model_and_explainer"],
    \* a goal 15 km away, on an empty battery
    [m |-> Mission(<< Waypoint(10000000, 10000000, 80),
                      Waypoint(10100000, 10100000, 80) >>,
                   0, 8, [wind_speed |-> 22, gust_speed |-> 30]),
     scorer |-> "safe", model |-> "none"],
    \* a route next to the pole
    [m |-> Mission(<< Waypoint(89996500, -122000000, 100),
                      Waypoint(89995400, -122001100, 100),
                      Waypoint(89900000, -122000000, 100) >>,
                   0, 15, NoWeather),
     scorer |-> "raises", model |-> "none"],
    \* a latitude out of range
    [m |-> Mission(<< Waypoint(10000000, 10000000, 100),
                      Waypoint(91000000, 10000000, 100) >>,
                   100, 15, NoWeather),
     scorer |-> "safe", model |-> "model"],
    \* one waypoint
    [m |-> Mission(<< Waypoint(10000000, 10000000, 100) >>, 100, 15, NoWeather),
     scorer |-> "safe", model |-> "none"],
    \* no waypoint
    [m |-> Mission(<< >>, 100, 15, NoWeather),
     scorer |-> "safe", model |-> "model_and_explainer"] }

InitCalls ==
  /\ \E scenario \in CallScenarios :
       /\ mission = scenario.m.waypoints
       /\ sim_mission = scenario.m
       /\ risk_mission = scenario.m
       /\ scorer = scenario.scorer
       /\ model = scenario.model
  /\ speed_multiplier = 10
  /\ shap_values = <<120, -30, 40, -250, 90, 60, -400, 10, 0, 35, 75, -20>>
  /\ pc = "call"
  /\ i = 0
  /\ optimized_waypoints = << >>
  /\ result = NoResult
  /\ segments = << >>
  /\ start = Waypoint(0, 0, 0)
  /\ goal = Waypoint(0, 0, 0)
  /\ nodes = << >>
  /\ open_set = << >>
  /\ closed_set = {}
  /\ iterations = 0
  /\ current = 0
  /\ optimal_segment = << >>
  /\ sim_pc = "call"
  /\ sim_i = 0
  /\ simulation_steps = << >>
  /\ current_state = << >>
  /\ segment = << >>
  /\ step = 0
  /\ steps = << >>
  /\ sim_result = NoSimResult
  /\ risk_pc = "call"
  /\ features = << >>
  /\ risk_result = [kind |-> "none"]
  /\ SvcIdle

NextCalls ==
  \/ Next
  \/ NextSim
  \/ NextRisk

SpecCalls == InitCalls /\ [][NextCalls]_vars

\* C28: no step of optimize_route, predict_mission_risk, explain_risk or
\* simulate_mission changes the Mission it was handed (waypoints, battery,
\* speed, weather), its other arguments, or the state of the RiskPredictor
C28_InputsUnchanged ==
  [][UNCHANGED <<mission, scorer, sim_mission, speed_multiplier, risk_mission,
                 model>>]_vars

\* all the calls on one two-waypoint Mission have returned, the optimizer
\* with a route that its search found
C28_Witness ==
  /\ pc = "done"
  /\ sim_pc = "done"
  /\ risk_pc \in {"predict", "explain"}
  /\ Len(mission) >= 2
  /\ mission = sim_mission.waypoints
  /\ mission = risk_mission.waypoints
  /\ result.status = "returned"
  /\ Len(result.waypoints) >= 2
  /\ segments # << >>
  /\ segments[1].status = "found"
  /\ sim_result.kind = "ok"

====
